---- MODULE Spec2Model ----
(***************************************************************************)
(* A model of the Elasticsearch transport client (class ElasticClient):    *)
(* the constructor's choice of the Authorization header and request(),     *)
(* with its timeout countdown, its decoding of the response body and its   *)
(* normalisation of every outcome into an ElasticResponse.                  *)
(*                                                                         *)
(* Strings that the code computes on (credentials, header values, URLs)    *)
(* are sequences of one-character strings.  JSON texts, messages and the   *)
(* error kinds are atomic strings; JSON.parse is given by its value on     *)
(* each text of BodyTexts.                                                 *)
(***************************************************************************)
EXTENDS Integers, Sequences, FiniteSets, TLC

VARIABLES env, config, constructed, client, thrown, reqs, invs, tools, listed

vars == <<env, config, constructed, client, thrown, reqs, invs, tools, listed>>

\* The number of request() calls one behaviour may have made.
MaxReq == 2

\* The number of tool invocations one behaviour may have dispatched.
MaxInv == 2

-----------------------------------------------------------------------------
(* JavaScript values *)

\* An optional string property that is not set (undefined).
Undefined == <<"undefined">>

\* An atomic-string property that is not set (undefined).
Undef == "<undefined>"

\* Truthiness of an optional string given as a sequence of characters.
Truthy(s) == s # Undefined /\ s # <<>>

\* a || b on atomic strings: a unless it is undefined or empty.
OrElse(a, b) == IF a = Undef \/ a = "" THEN b ELSE a

\* A JavaScript number that is an integer, and NaN.
Num(n) == [ nan |-> FALSE, n |-> n ]
NaN == [ nan |-> TRUE, n |-> 0 ]

\* `${number}` in a template literal.
NumberToString(number) == IF number.nan THEN "NaN" ELSE ToString(number.n)

-----------------------------------------------------------------------------
(* Buffer.from(text).toString('base64') *)

\* The UTF-8 byte of each character that is encoded.
CharCode(c) ==
  CASE c = " " -> 32
    [] c = "&" -> 38
    [] c = "," -> 44
    [] c = "/" -> 47
    [] c = ":" -> 58
    [] c = "=" -> 61
    [] c = "?" -> 63
    [] c = "a" -> 97
    [] c = "b" -> 98
    [] c = "d" -> 100
    [] c = "h" -> 104
    [] c = "i" -> 105
    [] c = "k" -> 107
    [] c = "p" -> 112
    [] c = "s" -> 115
    [] c = "u" -> 117
    [] c = "w" -> 119

Bytes(s) == [i \in 1..Len(s) |-> CharCode(s[i])]

B64Alphabet ==
  << "A","B","C","D","E","F","G","H","I","J","K","L","M","N","O","P",
     "Q","R","S","T","U","V","W","X","Y","Z","a","b","c","d","e","f",
     "g","h","i","j","k","l","m","n","o","p","q","r","s","t","u","v",
     "w","x","y","z","0","1","2","3","4","5","6","7","8","9","+","/" >>

B64Char(n) == B64Alphabet[n + 1]

RECURSIVE Base64Bytes(_)
Base64Bytes(bs) ==
  IF Len(bs) = 0 THEN <<>>
  ELSE IF Len(bs) = 1 THEN
    << B64Char(bs[1] \div 4), B64Char((bs[1] % 4) * 16), "=", "=" >>
  ELSE IF Len(bs) = 2 THEN
    << B64Char(bs[1] \div 4),
       B64Char((bs[1] % 4) * 16 + bs[2] \div 16),
       B64Char((bs[2] % 16) * 4), "=" >>
  ELSE
    << B64Char(bs[1] \div 4),
       B64Char((bs[1] % 4) * 16 + bs[2] \div 16),
       B64Char((bs[2] % 16) * 4 + bs[3] \div 64),
       B64Char(bs[3] % 64) >> \o Base64Bytes(SubSeq(bs, 4, Len(bs)))

Base64(s) == Base64Bytes(Bytes(s))

-----------------------------------------------------------------------------
(* The configuration and the constructor *)

ApiKeyPrefix == <<"A","p","i","K","e","y"," ">>
BasicPrefix == <<"B","a","s","i","c"," ">>

\* The message of the Error the constructor throws.
NoCredentials == "No authentication credentials provided. Set ELASTIC_API_KEY_ENCODED, or ELASTIC_API_KEY_ID + ELASTIC_API_KEY_SECRET, or ELASTIC_USERNAME + ELASTIC_PASSWORD"

\* config.elasticUrl.replace(/\/$/, ''): one trailing slash is removed.
StripTrailingSlash(url) ==
  IF Len(url) > 0 /\ url[Len(url)] = "/" THEN SubSeq(url, 1, Len(url) - 1) ELSE url

\* AuthBranch with the username+password test ahead of the id+secret test.
AuthBranchBasicFirst(cfg) ==
  IF Truthy(cfg.apiKeyEncoded) THEN "encoded"
  ELSE IF Truthy(cfg.username) /\ Truthy(cfg.password) THEN "basic"
  ELSE IF Truthy(cfg.apiKeyId) /\ Truthy(cfg.apiKeySecret) THEN "idsecret"
  ELSE "none"

\* AuthBranch taking an id or a secret alone for a pair.
AuthBranchHalfPair(cfg) ==
  IF Truthy(cfg.apiKeyEncoded) THEN "encoded"
  ELSE IF Truthy(cfg.apiKeyId) \/ Truthy(cfg.apiKeySecret) THEN "idsecret"
  ELSE IF Truthy(cfg.username) /\ Truthy(cfg.password) THEN "basic"
  ELSE "none"

\* The branch of the constructor's if/else-if chain that the configuration takes.
AuthBranch(cfg) ==
  IF Truthy(cfg.apiKeyEncoded) THEN "encoded"
  ELSE IF Truthy(cfg.apiKeyId) /\ Truthy(cfg.apiKeySecret) THEN "idsecret"
  ELSE IF Truthy(cfg.username) /\ Truthy(cfg.password) THEN "basic"
  ELSE "none"

\* The Authorization value the constructor installs on the branch taken.
AuthHeader(cfg) ==
  CASE AuthBranch(cfg) = "encoded" -> ApiKeyPrefix \o cfg.apiKeyEncoded
    [] AuthBranch(cfg) = "idsecret" ->
         ApiKeyPrefix \o Base64(cfg.apiKeyId \o <<":">> \o cfg.apiKeySecret)
    [] AuthBranch(cfg) = "basic" ->
         BasicPrefix \o Base64(cfg.username \o <<":">> \o cfg.password)
    [] OTHER -> Undefined

\* The object under construction before the constructor has run.
NoClient ==
  [ baseUrl |-> Undefined,
    timeout |-> Num(0),
    skipSslVerify |-> FALSE,
    headers |-> [ContentType |-> "<undefined>", Authorization |-> Undefined] ]

\* The fields of the constructed client.
NewClient(cfg) ==
  [ baseUrl |-> StripTrailingSlash(cfg.elasticUrl),
    timeout |-> cfg.timeout,
    skipSslVerify |-> cfg.skipSslVerify,
    headers |-> [ContentType |-> "application/json", Authorization |-> AuthHeader(cfg)] ]

-----------------------------------------------------------------------------
(* JSON values, JSON.parse and JSON.stringify *)

\* The value of a decoded body's "error" property.
ErrAbsent == [k |-> "undefined", type |-> Undef, reason |-> Undef]
ErrString == [k |-> "string", type |-> Undef, reason |-> Undef]
ErrObject(type, reason) == [k |-> "object", type |-> type, reason |-> reason]

\* A JSON value: its kind, its "error" and "raw" properties, and the text of
\* the rest of its content.
JNull == [k |-> "null", error |-> ErrAbsent, raw |-> Undef, rest |-> ""]
JArray(rest) == [k |-> "array", error |-> ErrAbsent, raw |-> Undef, rest |-> rest]
JObject(error, rest) == [k |-> "object", error |-> error, raw |-> Undef, rest |-> rest]

\* The literal {} .
EmptyObject == JObject(ErrAbsent, "")

\* The literal { raw: responseText } .
RawWrapper(text) == [k |-> "object", error |-> ErrAbsent, raw |-> text, rest |-> ""]

\* A thrown or rejected value: an Error (with its name and message) or not.
Fault(name, message) == [isError |-> TRUE, name |-> name, message |-> message]
NotAnError == [isError |-> FALSE, name |-> Undef, message |-> Undef]

\* The result of evaluating code that may throw.
Value(v) == [threw |-> FALSE, val |-> <<v>>, fault |-> <<>>]
Throw(f) == [threw |-> TRUE, val |-> <<>>, fault |-> <<f>>]

\* The body texts the remote service answers with.
BodyTexts ==
  { "",
    "{}",
    "{\"cluster_name\":\"test\"}",
    "{\"error\":{\"type\":\"index_not_found_exception\",\"reason\":\"no such index\"}}",
    "{\"error\":{\"type\":\"security_exception\"}}",
    "{\"error\":\"Incorrect HTTP method\"}",
    "null",
    "[]",
    "{\"hits\":{\"total\":{\"value\":1},\"hits\":[]}}",
    "<html>502 Bad Gateway</html>" }

\* JSON.parse on the texts of BodyTexts: the value, or a SyntaxError.
JSONParse(text) ==
  CASE text = "{}" -> Value(EmptyObject)
    [] text = "{\"cluster_name\":\"test\"}" ->
         Value(JObject(ErrAbsent, "\"cluster_name\":\"test\""))
    [] text = "{\"error\":{\"type\":\"index_not_found_exception\",\"reason\":\"no such index\"}}" ->
         Value(JObject(ErrObject("index_not_found_exception", "no such index"), ""))
    [] text = "{\"error\":{\"type\":\"security_exception\"}}" ->
         Value(JObject(ErrObject("security_exception", Undef), ""))
    [] text = "{\"error\":\"Incorrect HTTP method\"}" ->
         Value(JObject(ErrString, ""))
    [] text = "{\"count\":5}" -> Value(JObject(ErrAbsent, "\"count\":5"))
    [] text = "{\"id\":\"id1\",\"name\":\"n\",\"api_key\":\"s3cr3t\",\"encoded\":\"aWQxOnMzY3IzdA==\"}" ->
         Value(JObject(ErrAbsent,
                       "\"id\":\"id1\",\"name\":\"n\",\"api_key\":\"s3cr3t\",\"encoded\":\"aWQxOnMzY3IzdA==\""))
    [] text = "null" -> Value(JNull)
    [] text = "[]" -> Value(JArray(""))
    [] text = "{\"hits\":{\"total\":{\"value\":1},\"hits\":[]}}" ->
         Value(JObject(ErrAbsent, "\"hits\":{\"total\":{\"value\":1},\"hits\":[]}"))
    [] OTHER -> Throw(Fault("SyntaxError", "Unexpected token"))

\* A request body: its JavaScript type and its value.
Body(k, s, n, b) == [k |-> k, s |-> s, n |-> n, b |-> b]

NoBody == Body("undefined", "", 0, FALSE)
NullBody == Body("null", "", 0, FALSE)
BoolBody(b) == Body("boolean", "", 0, b)
NumBody(n) == Body("number", "", n, FALSE)
StrBody(s) == Body("string", s, 0, FALSE)
\* An object, by the text of its members; { query: { match_all: {} } }.
ObjBody(members) == Body("object", members, 0, FALSE)
ObjectBody == ObjBody("\"query\":{\"match_all\":{}}")
\* An object that refers to itself.
CircularBody == Body("circular", "", 0, FALSE)

\* JavaScript truthiness of a request body.
BodyTruthy(body) ==
  CASE body.k = "undefined" -> FALSE
    [] body.k = "null" -> FALSE
    [] body.k = "boolean" -> body.b
    [] body.k = "number" -> body.n # 0
    [] body.k = "string" -> body.s # ""
    [] OTHER -> TRUE

\* The characters of a string as JSON.stringify writes them between quotes.
RECURSIVE JSONEscape(_)
JSONEscape(s) ==
  IF Len(s) = 0 THEN ""
  ELSE IF Len(s) = 1
  THEN CASE s = "\"" -> "\\\""
         [] s = "\\" -> "\\\\"
         [] s = "\n" -> "\\n"
         [] OTHER -> s
  ELSE JSONEscape(SubSeq(s, 1, Len(s) \div 2))
         \o JSONEscape(SubSeq(s, Len(s) \div 2 + 1, Len(s)))

\* JSON.stringify(body): the text, or a TypeError for a value with a cycle.
JSONStringify(body) ==
  IF body.k = "circular"
  THEN Throw(Fault("TypeError", "Converting circular structure to JSON"))
  ELSE Value(CASE body.k = "undefined" -> Undef
               [] body.k = "null" -> "null"
               [] body.k = "boolean" -> (IF body.b THEN "true" ELSE "false")
               [] body.k = "number" -> ToString(body.n)
               [] body.k = "string" -> "\"" \o JSONEscape(body.s) \o "\""
               [] body.k = "object" -> "{" \o body.s \o "}")

-----------------------------------------------------------------------------
(* The request URL: base + path, then '?' + URLSearchParams.toString() *)

Digits == <<"0","1","2","3","4","5","6","7","8","9">>
HexDigits == Digits \o <<"A","B","C","D","E","F">>

\* String(n) for a natural number.
RECURSIVE DecString(_)
DecString(n) ==
  IF n < 10 THEN <<Digits[n + 1]>>
  ELSE DecString(n \div 10) \o <<Digits[(n % 10) + 1]>>

\* A query value: a string, a number or a boolean.
StrVal(s) == [k |-> "string", s |-> s, n |-> 0, b |-> FALSE]
NumVal(n) == [k |-> "number", s |-> <<>>, n |-> n, b |-> FALSE]
BoolVal(b) == [k |-> "boolean", s |-> <<>>, n |-> 0, b |-> b]

\* String(value).
StringOf(v) ==
  CASE v.k = "string" -> v.s
    [] v.k = "number" -> DecString(v.n)
    [] v.k = "boolean" ->
         IF v.b THEN <<"t","r","u","e">> ELSE <<"f","a","l","s","e">>

\* The characters application/x-www-form-urlencoded leaves as they are.
FormSafe == { B64Alphabet[i] : i \in 1..62 } \cup {"*", "-", ".", "_"}

\* The serialisation of one character of a name or a value.
FormEncodeChar(c) ==
  IF c \in FormSafe THEN <<c>>
  ELSE IF c = " " THEN <<"+">>
  ELSE <<"%", HexDigits[(CharCode(c) \div 16) + 1], HexDigits[(CharCode(c) % 16) + 1]>>

RECURSIVE FormEncode(_)
FormEncode(s) ==
  IF Len(s) = 0 THEN <<>> ELSE FormEncodeChar(Head(s)) \o FormEncode(Tail(s))

\* params.toString() after params.append(key, String(value)) for each entry, in order.
RECURSIVE QueryString(_)
QueryString(entries) ==
  IF Len(entries) = 0 THEN <<>>
  ELSE FormEncode(entries[1][1]) \o <<"=">> \o FormEncode(StringOf(entries[1][2]))
       \o (IF Len(entries) > 1 THEN <<"&">> ELSE <<>>)
       \o QueryString(Tail(entries))

\* queryParams not passed (undefined).
NoQuery == [given |-> FALSE, entries |-> <<>>]
Query(entries) == [given |-> TRUE, entries |-> entries]

\* A URL whose query string is appended for the first entry only.
BuildUrlFirstEntry(baseUrl, path, query) ==
  IF query.given /\ Len(query.entries) > 0
  THEN baseUrl \o path \o <<"?">> \o QueryString(<<query.entries[1]>>)
  ELSE baseUrl \o path

\* The URL request() calls fetch with.
BuildUrl(baseUrl, path, query) ==
  IF query.given /\ Len(query.entries) > 0
  THEN baseUrl \o path \o <<"?">> \o QueryString(query.entries)
  ELSE baseUrl \o path

-----------------------------------------------------------------------------
(* request(): the outcome of every path *)

\* An ElasticResponse; an optional property is <<>> when absent, <<v>> when set.
Success(data) == [success |-> TRUE, data |-> <<data>>, error |-> <<>>]
Failure(type, reason, status) ==
  [ success |-> FALSE, data |-> <<>>,
    error |-> << [type |-> type, reason |-> reason, status |-> status] >> ]

\* A Response: response.ok is true for the statuses 200..299.
Response(status, statusText) ==
  [status |-> status, statusText |-> statusText, ok |-> status \in 200..299]

\* DecodeBody without the test for an empty text.
DecodeBodyNoEmptyTest(text) ==
  IF JSONParse(text).threw THEN RawWrapper(text) ELSE JSONParse(text).val[1]

\* responseText ? JSON.parse(responseText) : {}, with { raw: responseText }
\* when JSON.parse throws.
DecodeBody(text) ==
  IF text = "" THEN EmptyObject
  ELSE IF JSONParse(text).threw THEN RawWrapper(text)
  ELSE JSONParse(text).val[1]

\* errorData.error: reading a property of null throws a TypeError.
ErrorProperty(data) ==
  IF data.k = "null"
  THEN Throw(Fault("TypeError", "Cannot read properties of null (reading 'error')"))
  ELSE Value(IF data.k = "object" THEN data.error ELSE ErrAbsent)

\* error?.type and error?.reason.
TypeOf(error) == IF error.k = "object" THEN error.type ELSE Undef
ReasonOf(error) == IF error.k = "object" THEN error.reason ELSE Undef

\* HttpFailure without the || defaults.
HttpFailureNoDefaults(error, response) ==
  Failure(TypeOf(error), <<ReasonOf(error)>>, <<response.status>>)

\* The value returned when !response.ok.
HttpFailure(error, response) ==
  Failure( OrElse(TypeOf(error), "request_error"),
           << OrElse(OrElse(ReasonOf(error), response.statusText), "Request failed") >>,
           << response.status >> )

\* The try block from the decoding of the body text to its return.
AfterText(response, text) ==
  IF ~response.ok
  THEN IF ErrorProperty(DecodeBody(text)).threw
       THEN ErrorProperty(DecodeBody(text))
       ELSE Value(HttpFailure(ErrorProperty(DecodeBody(text)).val[1], response))
  ELSE Value(Success(DecodeBody(text)))

\* CatchBlock rethrowing what is not an Error.
CatchBlockRethrows(error, timeout) ==
  IF error.isError
  THEN IF error.name = "AbortError"
       THEN Value(Failure("timeout",
                          <<"Request timed out after ", NumberToString(timeout), "ms">>, <<>>))
       ELSE Value(Failure("connection_error", <<error.message>>, <<>>))
  ELSE Throw(error)

\* CatchBlock testing for the name TimeoutError.
CatchBlockTimeoutName(error, timeout) ==
  IF error.isError
  THEN IF error.name = "TimeoutError"
       THEN Value(Failure("timeout",
                          <<"Request timed out after ", NumberToString(timeout), "ms">>, <<>>))
       ELSE Value(Failure("connection_error", <<error.message>>, <<>>))
  ELSE Value(Failure("unknown_error", <<"An unknown error occurred">>, <<>>))

\* The catch block's return, for the value caught.
CatchBlock(error, timeout) ==
  IF error.isError
  THEN IF error.name = "AbortError"
       THEN Value(Failure("timeout",
                          <<"Request timed out after ", NumberToString(timeout), "ms">>, <<>>))
       ELSE Value(Failure("connection_error", <<error.message>>, <<>>))
  ELSE Value(Failure("unknown_error", <<"An unknown error occurred">>, <<>>))

\* clearTimeout(timeoutId): a countdown still scheduled is cancelled.
ClearTimeout(timer) == IF timer = "armed" THEN "cleared" ELSE timer

\* The catch block without its clearTimeout.
TimerAfterCatchKept(timer) == timer

\* The countdown after the catch block's first statement.
TimerAfterCatch(timer) == ClearTimeout(timer)

\* The countdown after the statement that follows the await of fetch.
TimerAfterFetch(timer) == ClearTimeout(timer)

\* A request() that puts a body into the fetch options whatever the method.
SendsBodyAnyMethod(method, body) == BodyTruthy(body)

\* Whether request() puts a body into the fetch options.
SendsBody(method, body) == BodyTruthy(body) /\ method # "GET" /\ method # "HEAD"

-----------------------------------------------------------------------------
(* request(): one execution *)

\* A request() call that has not been made.
IdleReq ==
  [ pc |-> "idle", method |-> "", path |-> <<>>, body |-> NoBody, query |-> NoQuery,
    timer |-> "none", clears |-> 0, aborted |-> FALSE,
    sent |-> <<>>, response |-> <<>>, text |-> <<>>,
    caught |-> <<>>, outcome |-> <<>>, raised |-> <<>>,
    api |-> "none", pong |-> "none" ]

\* The end of an execution whose try block evaluated to result: a thrown value
\* goes through the catch block.
Finish(req, result) ==
  IF result.threw
  THEN [ req EXCEPT
           !.pc = IF CatchBlock(result.fault[1], client.timeout).threw
                  THEN "threw" ELSE "returned",
           !.timer = TimerAfterCatch(@),
           !.clears = @ + 1,
           !.caught = result.fault,
           !.outcome = CatchBlock(result.fault[1], client.timeout).val,
           !.raised = CatchBlock(result.fault[1], client.timeout).fault ]
  ELSE [ req EXCEPT !.pc = "returned", !.outcome = result.val ]

\* A ping() that reports a reachable cluster whatever the outcome.
PingResultAlwaysTrue(outcome) == "true"

\* ping(): return response.success.
PingResult(outcome) == IF outcome.success THEN "true" ELSE "false"

\* The end of the public method that called request(): ping() reduces the
\* outcome to a boolean, the other methods return it as it is.
End(req, result) ==
  IF req.api = "ping" /\ Finish(req, result).pc = "returned"
  THEN [Finish(req, result) EXCEPT !.pong = PingResult(Finish(req, result).outcome[1])]
  ELSE Finish(req, result)

\* Headers rebuilt for the call, with the content type alone.
RequestHeadersRebuilt(c) == [c.headers EXCEPT !.Authorization = Undefined]

\* The headers request() hands to fetch: this.headers.
RequestHeaders(c) == c.headers

\* The calls of fetch one execution of request() makes with its options.
FetchCallsRepeated(options) == <<options, options>>

FetchCalls(options) == <<options>>

\* request(method, path, body, queryParams), called through the public method
\* api, up to its await of fetch: the URL, the countdown, the fetch options and
\* the call of fetch.
Issue(r, api, method, path, body, query) ==
  /\ constructed = "ok"
  /\ reqs[r].pc = "idle"
  /\ \A q \in 1..(r - 1) : reqs[q].pc # "idle"
  /\ LET started == [ IdleReq EXCEPT !.method = method, !.path = path, !.body = body,
                                     !.query = query, !.timer = "armed", !.api = api ]
         options == [ url |-> BuildUrl(client.baseUrl, path, query),
                      method |-> method,
                      headers |-> RequestHeaders(client),
                      body |-> IF SendsBody(method, body)
                               THEN JSONStringify(body).val ELSE <<>> ]
     IN reqs' = [ reqs EXCEPT ![r] =
                    IF SendsBody(method, body) /\ JSONStringify(body).threw
                    THEN End(started, JSONStringify(body))
                    ELSE [started EXCEPT !.pc = "fetching", !.sent = FetchCalls(options)] ]

\* A direct call of request(method, path, body, queryParams).
RequestCall(r, method, path, body, query) ==
  /\ Issue(r, "request", method, path, body, query)
  /\ UNCHANGED <<env, tools, listed, config, constructed, client, thrown, invs>>

\* get(path, queryParams): request('GET', path, undefined, queryParams).
GetCall(r, path, query) ==
  /\ Issue(r, "get", "GET", path, NoBody, query)
  /\ UNCHANGED <<env, tools, listed, config, constructed, client, thrown, invs>>

\* post(path, body, queryParams): request('POST', path, body, queryParams).
PostCall(r, path, body, query) ==
  /\ Issue(r, "post", "POST", path, body, query)
  /\ UNCHANGED <<env, tools, listed, config, constructed, client, thrown, invs>>

\* put(path, body, queryParams): request('PUT', path, body, queryParams).
PutCall(r, path, body, query) ==
  /\ Issue(r, "put", "PUT", path, body, query)
  /\ UNCHANGED <<env, tools, listed, config, constructed, client, thrown, invs>>

\* delete(path, body, queryParams): request('DELETE', path, body, queryParams).
DeleteCall(r, path, body, query) ==
  /\ Issue(r, "delete", "DELETE", path, body, query)
  /\ UNCHANGED <<env, tools, listed, config, constructed, client, thrown, invs>>

\* ping(): this.get('/').
PingCall(r) ==
  /\ Issue(r, "ping", "GET", <<"/">>, NoBody, NoQuery)
  /\ UNCHANGED <<env, tools, listed, config, constructed, client, thrown, invs>>

\* info(): this.get('/').
InfoCall(r) ==
  /\ Issue(r, "info", "GET", <<"/">>, NoBody, NoQuery)
  /\ UNCHANGED <<env, tools, listed, config, constructed, client, thrown, invs>>

\* fetch resolves with a response (status line and headers received): the
\* countdown is cleared and the body text is awaited.
FetchResolve(r, response) ==
  /\ reqs[r].pc = "fetching"
  /\ reqs' = [ reqs EXCEPT ![r].pc = "reading",
                           ![r].response = <<response>>,
                           ![r].timer = TimerAfterFetch(@),
                           ![r].clears = @ + 1 ]
  /\ UNCHANGED <<env, tools, listed, config, constructed, client, thrown, invs>>

\* fetch rejects with a fault of the transport.
FetchReject(r, fault) ==
  /\ reqs[r].pc = "fetching"
  /\ reqs' = [reqs EXCEPT ![r] = End(reqs[r], Throw(fault))]
  /\ UNCHANGED <<env, tools, listed, config, constructed, client, thrown, invs>>

\* The rejection of fetch when its signal is aborted.
AbortFault == Fault("AbortError", "This operation was aborted")

\* One AbortController kept by the client for all its calls.
ControllerOfClient(r) == 0

\* The AbortController whose signal the fetch of call r is given: the one the
\* call has constructed.
ControllerOf(r) == r

\* The pending fetches that the abort of call r's controller rejects.
Signalled(r) ==
  { q \in 1..MaxReq : reqs[q].pc = "fetching" /\ ControllerOf(q) = ControllerOf(r) }

\* The countdown elapses while fetch is pending: controller.abort() rejects fetch.
TimerFires(r) ==
  /\ reqs[r].pc = "fetching"
  /\ reqs[r].timer = "armed"
  /\ reqs' = [ q \in 1..MaxReq |->
                 IF q = r
                 THEN End([reqs[r] EXCEPT !.timer = "fired", !.aborted = TRUE],
                          Throw(AbortFault))
                 ELSE IF q \in Signalled(r)
                 THEN End([reqs[q] EXCEPT !.aborted = TRUE], Throw(AbortFault))
                 ELSE reqs[q] ]
  /\ UNCHANGED <<env, tools, listed, config, constructed, client, thrown, invs>>

\* response.text() resolves with the body text.
TextResolve(r, text) ==
  /\ reqs[r].pc = "reading"
  /\ reqs' = [ reqs EXCEPT ![r] =
                 End([reqs[r] EXCEPT !.text = <<text>>],
                        AfterText(reqs[r].response[1], text)) ]
  /\ UNCHANGED <<env, tools, listed, config, constructed, client, thrown, invs>>

\* response.text() rejects: the connection fails while the body is read.
TextReject(r, fault) ==
  /\ reqs[r].pc = "reading"
  /\ reqs' = [reqs EXCEPT ![r] = End(reqs[r], Throw(fault))]
  /\ UNCHANGED <<env, tools, listed, config, constructed, client, thrown, invs>>

-----------------------------------------------------------------------------
(* The constructor as a step, and the environment *)

\* new ElasticClient(config): the client, or the Error thrown.
Construct ==
  /\ constructed = "pending"
  /\ IF AuthBranch(config) = "none"
     THEN /\ constructed' = "threw"
          /\ thrown' = <<NoCredentials>>
          /\ client' = client
     ELSE /\ constructed' = "ok"
          /\ thrown' = thrown
          /\ client' = NewClient(config)
  /\ UNCHANGED <<env, tools, listed, config, reqs, invs>>

EsUrl == <<"h",":","/","/","e","s">>

Config(url, encoded, id, secret, username, password, timeout) ==
  [ elasticUrl |-> url, apiKeyEncoded |-> encoded, apiKeyId |-> id,
    apiKeySecret |-> secret, username |-> username, password |-> password,
    skipSslVerify |-> FALSE, timeout |-> Num(timeout) ]

\* The configurations of the client's tests.
TestConfigs ==
  { Config(EsUrl, <<"k">>, Undefined, Undefined, Undefined, Undefined, 30000),
    Config(EsUrl, Undefined, <<"i","d">>, <<"s">>, Undefined, Undefined, 30000),
    Config(EsUrl, Undefined, Undefined, Undefined, <<"u">>, <<"p","w">>, 30000),
    Config(EsUrl, Undefined, Undefined, Undefined, Undefined, Undefined, 30000),
    Config(EsUrl \o <<"/">>, <<"k">>, Undefined, Undefined, Undefined, Undefined, 30000),
    Config(EsUrl, <<"k">>, Undefined, Undefined, Undefined, Undefined, 100) }

\* Every combination of unset, empty and set credentials.
AllConfigs ==
  { Config(url, encoded, id, secret, username, password, 30000) :
      url \in {EsUrl, EsUrl \o <<"/">>},
      encoded \in {Undefined, <<>>, <<"k">>},
      id \in {Undefined, <<>>, <<"i","d">>},
      secret \in {Undefined, <<>>, <<"s">>},
      username \in {Undefined, <<>>, <<"u">>},
      password \in {Undefined, <<>>, <<"p","w">>} }

\* The calls of the client's tests, and a call whose body cannot be serialised.
Calls ==
  { <<"GET", <<"/">>, NoBody, NoQuery>>,
    <<"POST", <<"/","i">>, ObjectBody, NoQuery>>,
    <<"POST", <<"/","i">>, CircularBody, NoQuery>>,
    <<"GET", <<"/","i">>, NoBody, Query(<< <<<<"h">>, StrVal(<<"a",",","b">>)>> >>)>> }

Responses == { Response(200, "OK"), Response(404, "Not Found"), Response(503, "") }

\* What fetch rejects with: a network fault, the rejections of the tests'
\* mocks, and a value that is not an Error.
FetchFaults ==
  { Fault("TypeError", "fetch failed"),
    Fault("Error", "Network error"),
    Fault("AbortError", "Timeout"),
    NotAnError }

ReadFaults == { Fault("TypeError", "terminated") }

\* The steps of the remote exchange of call r.
NetStep(r) ==
  \/ \E response \in Responses : FetchResolve(r, response)
  \/ \E fault \in FetchFaults : FetchReject(r, fault)
  \/ TimerFires(r)
  \/ \E text \in BodyTexts : TextResolve(r, text)
  \/ \E fault \in ReadFaults : TextReject(r, fault)

-----------------------------------------------------------------------------
(* The server: the dispatch of a tool call, and the tools search, delete_index
   and cluster_info *)

\* The names this.tools holds, of the tools that are modelled.
Registered ==
  { "search", "count", "msearch", "get_document", "delete_index", "cluster_info",
    "delete_user", "create_api_key" }

\* this.tools.get(name).
Lookup(name) == IF name \in Registered THEN <<name>> ELSE <<>>

\* The arguments of a tool call: undefined, or an object with some of the
\* properties index, confirm, size, id, username, name and searches.
NoArgs ==
  [ given |-> FALSE, index |-> <<>>, confirm |-> <<>>, size |-> <<>>, id |-> <<>>,
    username |-> <<>>, name |-> <<>>, searches |-> <<>> ]
Args(index, confirm, size) ==
  [NoArgs EXCEPT !.given = TRUE, !.index = index, !.confirm = confirm, !.size = size]

\* args || {} .
ArgsOrEmpty(args) == IF args.given THEN args ELSE Args(<<>>, <<>>, <<>>)

\* The issue z.string() reports for the property index.
IndexIssue(a) ==
  IF a.index = <<>> THEN "index: Required;"
  ELSE IF a.index[1].k # "string" THEN "index: Expected string;"
  ELSE ""

\* The issue z.literal(true) reports for the property confirm.
ConfirmIssue(a) ==
  IF a.confirm = <<>> \/ a.confirm[1] # BoolVal(TRUE)
  THEN "confirm: Invalid literal value, expected true;" ELSE ""

\* The issue z.number().min(0).max(10000).default(10) reports for the property size.
SizeIssue(a) ==
  IF a.size = <<>> THEN ""
  ELSE IF a.size[1].k # "number" THEN "size: Expected number;"
  ELSE IF a.size[1].n > 10000 THEN "size: Number must be less than or equal to 10000;"
  ELSE ""

\* The issue z.string() reports for a property with the value v.
StringIssue(key, v) ==
  IF v = <<>> THEN key \o ": Required;"
  ELSE IF v[1].k # "string" THEN key \o ": Expected string;"
  ELSE ""

\* The issue z.array(z.object({ index: z.string(), ... })) reports for searches.
SearchesIssue(a) ==
  IF a.searches = <<>> THEN "searches: Required;"
  ELSE IF \E n \in 1..Len(a.searches[1]) : a.searches[1][n].index = <<>>
  THEN "searches.index: Required;"
  ELSE ""

\* The issues the schema of a tool finds; the ZodError's message is their list.
Issues(name, a) ==
  CASE name = "search" -> IndexIssue(a) \o SizeIssue(a)
    [] name = "count" -> IndexIssue(a)
    [] name = "msearch" -> SearchesIssue(a)
    [] name = "get_document" -> IndexIssue(a) \o StringIssue("id", a.id)
    [] name = "delete_index" -> IndexIssue(a) \o ConfirmIssue(a)
    [] name = "cluster_info" -> ""
    [] name = "delete_user" -> StringIssue("username", a.username)
    [] name = "create_api_key" -> StringIssue("name", a.name)

\* The parameters of a handler: the properties the modelled schemas declare.
NoParams ==
  [ index |-> <<>>, confirm |-> FALSE, size |-> 0, from |-> 0, id |-> <<>>,
    username |-> <<>>, name |-> <<>>, searches |-> <<>> ]

\* tool.schema.parse(args): the parsed parameters with the defaults filled in
\* and the unknown properties stripped, or a ZodError.
SchemaParse(name, a) ==
  IF Issues(name, a) # "" THEN Throw(Fault("ZodError", Issues(name, a)))
  ELSE Value(CASE name = "search" ->
                    [ NoParams EXCEPT !.index = a.index[1].s,
                        !.size = IF a.size = <<>> THEN 10 ELSE a.size[1].n, !.from = 0 ]
               [] name = "count" -> [NoParams EXCEPT !.index = a.index[1].s]
               [] name = "msearch" -> [NoParams EXCEPT !.searches = a.searches[1]]
               [] name = "get_document" ->
                    [NoParams EXCEPT !.index = a.index[1].s, !.id = a.id[1].s]
               [] name = "delete_index" ->
                    [NoParams EXCEPT !.index = a.index[1].s, !.confirm = TRUE]
               [] name = "cluster_info" -> NoParams
               [] name = "delete_user" -> [NoParams EXCEPT !.username = a.username[1].s]
               [] name = "create_api_key" -> [NoParams EXCEPT !.name = a.name[1].s])

\* A tool result: the text of its one content item and the optional isError.
Result(text, isError) == [text |-> text, isError |-> isError]

\* The result for a name that is not registered.
UnknownToolNoFlag(name) == Result(<<"Unknown tool: ", name>>, <<>>)

UnknownTool(name) == Result(<<"Unknown tool: ", name>>, <<TRUE>>)

\* The catch block of the dispatch, rethrowing.
DispatchCatchRethrows(fault) == Throw(fault)

\* The catch block of the dispatch.
DispatchCatch(fault) ==
  Value(Result(<<"Tool execution failed: ",
                 IF fault.isError THEN fault.message ELSE "Unknown error">>, <<TRUE>>))

\* Handlers without a test before their call of the client.
HandlerEarlyNone(name, params) == <<>>

\* What a handler returns before it calls the client, if it does.
HandlerEarly(name, params) ==
  IF name = "delete_index" /\ ~params.confirm
  THEN <<Result(<<"Deletion not confirmed. Set confirm: true to delete.">>, <<TRUE>>)>>
  ELSE <<>>

\* A string of the program, from its characters.
RECURSIVE Text(_)
Text(chars) == IF Len(chars) = 0 THEN "" ELSE Head(chars) \o Text(Tail(chars))

\* The lines msearch pushes: for each search the header JSON.stringify({ index })
\* and JSON.stringify({ query: search.query || { match_all: {} },
\* size: search.size || 10 }).
RECURSIVE SearchLines(_)
SearchLines(searches) ==
  IF Len(searches) = 0 THEN <<>>
  ELSE << "{\"index\":\"" \o JSONEscape(Text(searches[1].index[1].s)) \o "\"}",
          "{\"query\":"
            \o (IF searches[1].query = <<>> THEN "{\"match_all\":{}}" ELSE searches[1].query[1])
            \o ",\"size\":"
            \o ToString(IF searches[1].size = <<>> \/ searches[1].size[1] = 0
                        THEN 10 ELSE searches[1].size[1])
            \o "}" >>
       \o SearchLines(Tail(searches))

\* lines.join('\n').
RECURSIVE JoinLines(_)
JoinLines(lines) ==
  IF Len(lines) = 0 THEN ""
  ELSE IF Len(lines) = 1 THEN lines[1]
  ELSE lines[1] \o "\n" \o JoinLines(Tail(lines))

\* A call of the client: the method called and its arguments.
Call(api, path, body, query) == [api |-> api, path |-> path, body |-> body, query |-> query]

\* The call of the client a handler makes: the method of the client and its
\* arguments.
ClientCall(name, params) ==
  CASE name = "search" ->
         Call("post", <<"/">> \o params.index \o <<"/","_","s","e","a","r","c","h">>,
              ObjBody("\"size\":" \o ToString(params.size)
                      \o ",\"from\":" \o ToString(params.from)), NoQuery)
    [] name = "count" ->
         Call("post", <<"/">> \o params.index \o <<"/","_","c","o","u","n","t">>,
              NoBody, NoQuery)
    [] name = "msearch" ->
         Call("post", <<"/","_","m","s","e","a","r","c","h">>,
              StrBody(JoinLines(SearchLines(params.searches)) \o "\n"), NoQuery)
    [] name = "get_document" ->
         Call("get", <<"/">> \o params.index \o <<"/","_","d","o","c","/">> \o params.id,
              NoBody, Query(<<>>))
    [] name = "delete_index" -> Call("delete", <<"/">> \o params.index, NoBody, NoQuery)
    [] name = "cluster_info" -> Call("get", <<"/">>, NoBody, NoQuery)
    [] name = "delete_user" ->
         Call("delete", <<"/","_","s","e","c","u","r","i","t","y","/","u","s","e","r","/">>
                        \o params.username, NoBody, NoQuery)
    [] name = "create_api_key" ->
         Call("post", <<"/","_","s","e","c","u","r","i","t","y","/","a","p","i","_","k","e","y">>,
              ObjBody("\"name\":\"" \o JSONEscape(Text(params.name)) \o "\""), NoQuery)

\* The method get(), post(), put() and delete() pass to request().
MethodOf(api) ==
  CASE api = "get" -> "GET" [] api = "post" -> "POST"
    [] api = "put" -> "PUT" [] api = "delete" -> "DELETE"

\* The body texts the remote service answers the modelled tools with: those of
\* BodyTexts, a count and a created API key.
ToolTexts ==
  BodyTexts \cup
  { "{\"count\":5}",
    "{\"id\":\"id1\",\"name\":\"n\",\"api_key\":\"s3cr3t\",\"encoded\":\"aWQxOnMzY3IzdA==\"}" }

\* JSON.stringify(response.data, null, 2), white space aside.
StringifyData(data) ==
  IF data.raw # Undef THEN "{\"raw\":\"" \o JSONEscape(data.raw) \o "\"}"
  ELSE IF data = EmptyObject THEN "{}"
  ELSE CHOOSE t \in ToolTexts : ~JSONParse(t).threw /\ JSONParse(t).val[1] = data

\* data[key] for a decoded body: the member's JSON text, or undefined.
Member(data, key) ==
  CASE data.rest = "\"count\":5" /\ key = "count" -> "5"
    [] data.rest = "\"id\":\"id1\",\"name\":\"n\",\"api_key\":\"s3cr3t\",\"encoded\":\"aWQxOnMzY3IzdA==\""
       /\ key \in {"id", "name", "api_key", "encoded"} ->
         (CASE key = "id" -> "\"id1\"" [] key = "name" -> "\"n\""
            [] key = "api_key" -> "\"s3cr3t\"" [] key = "encoded" -> "\"aWQxOnMzY3IzdA==\"")
    [] OTHER -> Undef

\* A member of the object create_api_key serialises; JSON.stringify leaves an
\* undefined member out.
MemberPiece(data, key) ==
  IF Member(data, key) = Undef THEN <<>>
  ELSE <<",\"" \o key \o "\":", Member(data, key)>>

\* The rest of a handler, after the client's call has returned outcome.
HandlerReturn(name, params, outcome) ==
  CASE name = "search" ->
         IF ~outcome.success
         THEN Value(Result(<<"Search failed: ">> \o outcome.error[1].reason, <<TRUE>>))
         ELSE IF outcome.data[1].k = "null"
         THEN Throw(Fault("TypeError", "Cannot read properties of null (reading 'hits')"))
         ELSE IF outcome.data[1].rest # "\"hits\":{\"total\":{\"value\":1},\"hits\":[]}"
         THEN Throw(Fault("TypeError", "Cannot read properties of undefined (reading 'total')"))
         ELSE Value(Result(<<"{\"summary\":\"Found 1 results (showing 0)\",\"hits\":[]}">>, <<>>))
    [] name = "count" ->
         IF ~outcome.success
         THEN Value(Result(<<"Count failed: ">> \o outcome.error[1].reason, <<TRUE>>))
         ELSE IF outcome.data[1].k = "null"
         THEN Throw(Fault("TypeError", "Cannot read properties of null (reading 'count')"))
         ELSE Value(Result(<<"Document count: ", Member(outcome.data[1], "count")>>, <<>>))
    [] name = "msearch" ->
         IF ~outcome.success
         THEN Value(Result(<<"Multi-search failed: ">> \o outcome.error[1].reason, <<TRUE>>))
         ELSE Value(Result(<<StringifyData(outcome.data[1])>>, <<>>))
    [] name = "get_document" ->
         IF ~outcome.success
         THEN Value(Result(<<"Document not found or error: ">> \o outcome.error[1].reason,
                           <<TRUE>>))
         ELSE Value(Result(<<StringifyData(outcome.data[1])>>, <<>>))
    [] name = "delete_user" ->
         IF ~outcome.success
         THEN Value(Result(<<"Failed to delete user: ">> \o outcome.error[1].reason, <<TRUE>>))
         ELSE Value(Result(<<"User '">> \o params.username \o <<"' deleted successfully">>,
                           <<>>))
    [] name = "create_api_key" ->
         IF ~outcome.success
         THEN Value(Result(<<"Failed to create API key: ">> \o outcome.error[1].reason,
                           <<TRUE>>))
         ELSE IF outcome.data[1].k = "null"
         THEN Throw(Fault("TypeError", "Cannot read properties of null (reading 'id')"))
         ELSE Value(Result(
                <<"{\"message\":\"API key created successfully. IMPORTANT: Save the api_key value - it cannot be retrieved again!\"">>
                \o MemberPiece(outcome.data[1], "id") \o MemberPiece(outcome.data[1], "name")
                \o MemberPiece(outcome.data[1], "encoded")
                \o MemberPiece(outcome.data[1], "expiration") \o <<"}">>, <<>>))
    [] name = "delete_index" ->
         IF ~outcome.success
         THEN Value(Result(<<"Failed to delete index: ">> \o outcome.error[1].reason, <<TRUE>>))
         ELSE Value(Result(<<"Index '">> \o params.index \o <<"' deleted successfully">>, <<>>))
    [] name = "cluster_info" ->
         IF ~outcome.success
         THEN Value(Result(<<"Failed to get cluster info: ">> \o outcome.error[1].reason,
                           <<TRUE>>))
         ELSE Value(Result(<<StringifyData(outcome.data[1])>>, <<>>))

\* A tool invocation that has not been dispatched.
IdleInv ==
  [ pc |-> "idle", name |-> "", args |-> NoArgs, params |-> <<>>,
    validated |-> FALSE, handled |-> FALSE, calls |-> 0, req |-> 0,
    caught |-> <<>>, result |-> <<>>, raised |-> <<>>, direct |-> FALSE ]

\* The end of the dispatch: the result is returned to the protocol layer, or
\* the fault is.
Conclude(inv, res) ==
  IF res.threw THEN [inv EXCEPT !.pc = "raised", !.raised = res.fault]
  ELSE [inv EXCEPT !.pc = "done", !.result = res.val]

\* The try block of the dispatch has thrown.
Caught(inv, fault) == Conclude([inv EXCEPT !.caught = <<fault>>], DispatchCatch(fault))

\* tool.handler(params), up to its await of the client or to its early return.
RunHandler(i, inv, params) ==
  LET ran == [inv EXCEPT !.params = <<params>>, !.handled = TRUE]
      call == ClientCall(inv.name, params)
  IN IF HandlerEarly(inv.name, params) # <<>>
     THEN /\ invs' = [invs EXCEPT ![i] =
                        Conclude(ran, Value(HandlerEarly(inv.name, params)[1]))]
          /\ UNCHANGED reqs
     ELSE \E r \in 1..MaxReq :
            /\ Issue(r, call.api, MethodOf(call.api), call.path, call.body, call.query)
            /\ invs' = [invs EXCEPT ![i] =
                          [ran EXCEPT !.pc = "awaiting", !.calls = 1, !.req = r]]

\* The CallTool request handler, up to the handler's await of the client.
CallTool(i, name, args) ==
  /\ constructed = "ok"
  /\ invs[i].pc = "idle"
  /\ \A j \in 1..(i - 1) : invs[j].pc # "idle"
  /\ LET inv == [IdleInv EXCEPT !.name = name, !.args = args]
         parsed == SchemaParse(name, ArgsOrEmpty(args))
     IN IF Lookup(name) = <<>>
        THEN /\ invs' = [invs EXCEPT ![i] = Conclude(inv, Value(UnknownTool(name)))]
             /\ UNCHANGED reqs
        ELSE IF parsed.threw
        THEN /\ invs' = [invs EXCEPT ![i] = Caught(inv, parsed.fault[1])]
             /\ UNCHANGED reqs
        ELSE RunHandler(i, [inv EXCEPT !.validated = TRUE], parsed.val[1])
  /\ UNCHANGED <<env, tools, listed, config, constructed, client, thrown>>

\* A call of tool.handler(params) made of the tool itself, as the tests of the
\* tools make it, without the dispatch and its validation.
InvokeHandler(i, name, params) ==
  /\ constructed = "ok"
  /\ invs[i].pc = "idle"
  /\ \A j \in 1..(i - 1) : invs[j].pc # "idle"
  /\ RunHandler(i, [IdleInv EXCEPT !.name = name, !.direct = TRUE], params)
  /\ UNCHANGED <<env, tools, listed, config, constructed, client, thrown>>

\* The client's call has settled: the handler runs to its end and the dispatch
\* returns its result.
HandlerResume(i) ==
  /\ invs[i].pc = "awaiting"
  /\ reqs[invs[i].req].pc \in {"returned", "threw"}
  /\ LET req == reqs[invs[i].req]
         res == IF req.pc = "threw" THEN Throw(req.raised[1])
                ELSE HandlerReturn(invs[i].name, invs[i].params[1], req.outcome[1])
     IN invs' = [invs EXCEPT ![i] =
                   IF res.threw /\ ~invs[i].direct THEN Caught(invs[i], res.fault[1])
                   ELSE Conclude(invs[i], res)]
  /\ UNCHANGED <<env, tools, listed, config, constructed, client, thrown, reqs>>

Step(r) ==
  \/ \E c \in Calls : RequestCall(r, c[1], c[2], c[3], c[4])
  \/ NetStep(r)

-----------------------------------------------------------------------------
(* The declared schemas and tool discovery *)

\* The _def of a zod field schema: its typeName, the schema it wraps if it is
\* an optional or a default, whether describe() gave it a description, and
\* whether it has a defaultValue function.
ZodDef(typeName, innerType, described, defaultValue) ==
  [ typeName |-> typeName, innerType |-> innerType, described |-> described,
    defaultValue |-> defaultValue ]

ZString == ZodDef("ZodString", <<>>, FALSE, FALSE)
ZNumber == ZodDef("ZodNumber", <<>>, FALSE, FALSE)
ZBoolean == ZodDef("ZodBoolean", <<>>, FALSE, FALSE)
ZArray == ZodDef("ZodArray", <<>>, FALSE, FALSE)
ZObject == ZodDef("ZodObject", <<>>, FALSE, FALSE)
ZRecord == ZodDef("ZodRecord", <<>>, FALSE, FALSE)
ZUnion == ZodDef("ZodUnion", <<>>, FALSE, FALSE)
ZLiteral == ZodDef("ZodLiteral", <<>>, FALSE, FALSE)

\* field.optional(): a ZodOptional around the field.
Optional(field) == ZodDef("ZodOptional", <<field>>, field.described, FALSE)

\* field.default(value): a ZodDefault around the field, with a defaultValue.
Default(field) == ZodDef("ZodDefault", <<field>>, field.described, TRUE)

\* field.describe(text): the same schema with a description.
Describe(field) == [field EXCEPT !.described = TRUE]

\* z.object(shape): _def.shape is a function that returns the entries.
ZodObject(shape) == [ shaped |-> TRUE, shape |-> shape ]

\* A schema whose _def has no shape function.
Unshaped == [ shaped |-> FALSE, shape |-> <<>> ]

SearchRequestSchema ==
  ZodObject(<< <<"index", Describe(ZString)>>,
               <<"query", Describe(Optional(ZRecord))>>,
               <<"size", Describe(Default(ZNumber))>>,
               <<"from", Describe(Default(ZNumber))>>,
               <<"sort", Describe(Optional(ZArray))>>,
               <<"_source", Describe(Optional(ZUnion))>>,
               <<"aggs", Describe(Optional(ZRecord))>> >>)

CreateApiKeySchema ==
  ZodObject(<< <<"name", Describe(ZString)>>,
               <<"expiration", Describe(Optional(ZString))>>,
               <<"role_descriptors", Describe(Optional(ZRecord))>>,
               <<"metadata", Optional(ZRecord)>> >>)

\* The schema each modelled tool declares, and the schema of
\* allocation_explain.
DeclaredSchema(name) ==
  CASE name = "search" -> SearchRequestSchema
    [] name = "count" ->
         ZodObject(<< <<"index", Describe(ZString)>>,
                      <<"query", Describe(Optional(ZRecord))>> >>)
    [] name = "msearch" -> ZodObject(<< <<"searches", Describe(ZArray)>> >>)
    [] name = "get_document" ->
         ZodObject(<< <<"index", Describe(ZString)>>,
                      <<"id", Describe(ZString)>>,
                      <<"_source", Describe(Optional(ZUnion))>> >>)
    [] name = "delete_index" ->
         ZodObject(<< <<"index", Describe(ZString)>>,
                      <<"confirm", Describe(ZLiteral)>> >>)
    [] name = "cluster_info" -> ZodObject(<<>>)
    [] name = "delete_user" -> ZodObject(<< <<"username", Describe(ZString)>> >>)
    [] name = "create_api_key" -> CreateApiKeySchema
    [] name = "allocation_explain" ->
         ZodObject(<< <<"index", Describe(Optional(ZString))>>,
                      <<"shard", Describe(Optional(ZNumber))>>,
                      <<"primary", Describe(Optional(ZBoolean))>> >>)

\* this.tools after registerTools(): the schema under each name.
RegisteredTools ==
  [name \in Registered \cup {"allocation_explain"} |-> DeclaredSchema(name)]

\* The basic type inference of zodToJsonSchema: 'string' unless the typeName is
\* one of the four that are tested.
JsonType(fieldDef) ==
  CASE fieldDef.typeName = "ZodObject" -> "object"
    [] fieldDef.typeName = "ZodArray" -> "array"
    [] fieldDef.typeName = "ZodBoolean" -> "boolean"
    [] fieldDef.typeName = "ZodNumber" -> "number"
    [] OTHER -> "string"

\* The test that pushes a key onto required.
IsRequired(fieldDef) == fieldDef.typeName # "ZodOptional" /\ ~fieldDef.defaultValue

\* The keys of the entries that are required, in the order of the shape.
RECURSIVE RequiredKeys(_)
RequiredKeys(shape) ==
  IF shape = <<>> THEN <<>>
  ELSE (IF IsRequired(shape[1][2]) THEN <<shape[1][1]>> ELSE <<>>)
         \o RequiredKeys(Tail(shape))

\* zodToJsonSchema(schema): the properties in the order of the shape, each with
\* its type and whether it has a description, and the required keys; the basic
\* object schema when there is no shape.
zodToJsonSchema(schema) ==
  IF schema.shaped
  THEN [ type |-> "object",
         properties |-> [i \in 1..Len(schema.shape) |->
                          [ key |-> schema.shape[i][1],
                            type |-> JsonType(schema.shape[i][2]),
                            described |-> schema.shape[i][2].described ]],
         required |-> RequiredKeys(schema.shape) ]
  ELSE [ type |-> "object", properties |-> <<>>, required |-> <<>> ]

\* The ListTools handler: one entry per tool of this.tools, with the converted
\* schema.
ListTools ==
  /\ constructed = "ok"
  /\ listed = <<>>
  /\ listed' = << [name \in DOMAIN tools |->
                    [ name |-> name, inputSchema |-> zodToJsonSchema(tools[name]) ]] >>
  /\ UNCHANGED <<env, tools, config, constructed, client, thrown, reqs, invs>>

-----------------------------------------------------------------------------
(* The client built from the process environment *)

\* process.env with no variable of the server set.
NoEnv ==
  [ ELASTIC_URL |-> Undefined, ELASTIC_API_KEY_ENCODED |-> Undefined,
    ELASTIC_API_KEY_ID |-> Undefined, ELASTIC_API_KEY_SECRET |-> Undefined,
    ELASTIC_USERNAME |-> Undefined, ELASTIC_PASSWORD |-> Undefined,
    ELASTIC_SKIP_SSL_VERIFY |-> Undefined, ELASTIC_TIMEOUT |-> Undefined ]

\* Whether a character is a digit of radix 10, and its value.
IsDigit(c) == \E n \in 1..10 : Digits[n] = c

DigitValue(c) == (CHOOSE n \in 1..10 : Digits[n] = c) - 1

\* The string without its leading white space.
RECURSIVE TrimStart(_)
TrimStart(chars) ==
  IF chars # <<>> /\ chars[1] \in {" ", "\t", "\n", "\r"} THEN TrimStart(Tail(chars))
  ELSE chars

\* The longest prefix of the string that consists of digits.
RECURSIVE DigitPrefix(_)
DigitPrefix(chars) ==
  IF chars # <<>> /\ IsDigit(chars[1]) THEN <<chars[1]>> \o DigitPrefix(Tail(chars))
  ELSE <<>>

\* The mathematical value of a string of digits.
RECURSIVE DigitsValue(_)
DigitsValue(digits) ==
  IF digits = <<>> THEN 0
  ELSE 10 * DigitsValue(SubSeq(digits, 1, Len(digits) - 1)) + DigitValue(digits[Len(digits)])

\* parseInt(string, 10): white space is skipped, a sign is read, then the
\* digits up to the first character that is not one; NaN when there are none.
ParseInt(chars) ==
  LET trimmed == TrimStart(chars)
      signed == trimmed # <<>> /\ trimmed[1] \in {"+", "-"}
      sign == IF trimmed # <<>> /\ trimmed[1] = "-" THEN -1 ELSE 1
      digits == DigitPrefix(IF signed THEN Tail(trimmed) ELSE trimmed)
  IN IF digits = <<>> THEN NaN ELSE Num(sign * DigitsValue(digits))

\* The configuration createClientFromEnv passes to the constructor.
EnvConfig(e) ==
  [ elasticUrl |-> e.ELASTIC_URL,
    apiKeyEncoded |-> e.ELASTIC_API_KEY_ENCODED,
    apiKeyId |-> e.ELASTIC_API_KEY_ID,
    apiKeySecret |-> e.ELASTIC_API_KEY_SECRET,
    username |-> e.ELASTIC_USERNAME,
    password |-> e.ELASTIC_PASSWORD,
    skipSslVerify |-> e.ELASTIC_SKIP_SSL_VERIFY = <<"t","r","u","e">>,
    timeout |-> ParseInt(IF Truthy(e.ELASTIC_TIMEOUT) THEN e.ELASTIC_TIMEOUT
                         ELSE <<"3","0","0","0","0">>) ]

UrlRequired == "ELASTIC_URL environment variable is required"

\* createClientFromEnv(): the Error for a missing URL, or the constructor run
\* on the configuration read from the environment.
CreateClientFromEnv ==
  /\ constructed = "pending"
  /\ IF ~Truthy(env.ELASTIC_URL)
     THEN /\ constructed' = "threw"
          /\ thrown' = <<UrlRequired>>
          /\ UNCHANGED <<config, client>>
     ELSE /\ config' = EnvConfig(env)
          /\ IF AuthBranch(EnvConfig(env)) = "none"
             THEN /\ constructed' = "threw"
                  /\ thrown' = <<NoCredentials>>
                  /\ client' = client
             ELSE /\ constructed' = "ok"
                  /\ thrown' = thrown
                  /\ client' = NewClient(EnvConfig(env))
  /\ UNCHANGED <<env, tools, listed, reqs, invs>>


InitWith(configs) ==
  /\ env = NoEnv
  /\ tools = RegisteredTools
  /\ listed = <<>>
  /\ config \in configs
  /\ constructed = "pending"
  /\ client = NoClient
  /\ thrown = <<>>
  /\ reqs = [r \in 1..MaxReq |-> IdleReq]
  /\ invs = [i \in 1..MaxInv |-> IdleInv]

Init == InitWith(TestConfigs)

Next == Construct \/ \E r \in 1..MaxReq : Step(r)

Spec == Init /\ [][Next]_vars

\* Every configuration, with one request() call.
InitCtor == InitWith(AllConfigs)

NextCtor == Construct \/ Step(1)

SpecCtor == InitCtor /\ [][NextCtor]_vars

-----------------------------------------------------------------------------
(* Claims about the constructor, checked under SpecCtor *)

\* A credential that is set and not empty.
Populated(s) == s # Undefined /\ Len(s) > 0

HasKey(cfg) == Populated(cfg.apiKeyEncoded)
HasIdSecret(cfg) == Populated(cfg.apiKeyId) /\ Populated(cfg.apiKeySecret)
HasUserPassword(cfg) == Populated(cfg.username) /\ Populated(cfg.password)

\* The number of authentication sources the configuration populates.
NumSources(cfg) ==
  (IF HasKey(cfg) THEN 1 ELSE 0) + (IF HasIdSecret(cfg) THEN 1 ELSE 0)
  + (IF HasUserPassword(cfg) THEN 1 ELSE 0)

\* The HTTP exchanges issued: the calls of fetch.
Exchanges == { r \in 1..MaxReq : reqs[r].sent # <<>> }

\* C1: the constructed client's Authorization value is 'ApiKey <key>' when a
\* pre-encoded key is populated, whatever else is; else 'ApiKey base64(id:secret)'
\* when the id+secret pair is complete, whatever the username and password are;
\* else 'Basic base64(username:password)'; base64("id:s") is aWQ6cw== and
\* base64("u:pw") is dTpwdw==.
C1_AuthPrecedence ==
  constructed = "ok" =>
    LET auth == client.headers.Authorization IN
    /\ HasKey(config) => auth = ApiKeyPrefix \o config.apiKeyEncoded
    /\ ~HasKey(config) /\ HasIdSecret(config) =>
         /\ auth = ApiKeyPrefix \o Base64(config.apiKeyId \o <<":">> \o config.apiKeySecret)
         /\ auth = ApiKeyPrefix \o <<"a","W","Q","6","c","w","=","=">>
    /\ ~HasKey(config) /\ ~HasIdSecret(config) /\ HasUserPassword(config) =>
         /\ auth = BasicPrefix \o Base64(config.username \o <<":">> \o config.password)
         /\ auth = BasicPrefix \o <<"d","T","p","w","d","w","=","=">>
    /\ auth # Undefined

\* C1 witness: a client built from a configuration that populates a complete
\* id+secret pair and a complete username+password pair but no pre-encoded key.
C1_Witness ==
  /\ constructed = "ok"
  /\ ~HasKey(config) /\ HasIdSecret(config) /\ HasUserPassword(config)
  /\ client.headers.Authorization = ApiKeyPrefix \o <<"a","W","Q","6","c","w","=","=">>

\* C2: once the constructor has run, a configuration with one source has a
\* client, a configuration with no source has none, the Error thrown is the
\* missing-credentials one and no exchange is issued; a client always carries an
\* Authorization value.
C2_ConstructionOutcome ==
  /\ constructed # "pending" /\ NumSources(config) = 1 => constructed = "ok"
  /\ constructed # "pending" /\ NumSources(config) = 0 =>
       /\ constructed = "threw"
       /\ thrown = <<NoCredentials>>
       /\ Exchanges = {}
  /\ constructed = "ok" =>
       /\ NumSources(config) >= 1
       /\ client.headers.Authorization # Undefined
       /\ thrown = <<>>
  /\ constructed # "ok" => client = NoClient /\ Exchanges = {}

\* C2 witness: the constructor has thrown for a configuration whose only
\* credentials are an id without a secret and a password without a username.
C2_Witness ==
  /\ constructed = "threw"
  /\ Populated(config.apiKeyId) /\ ~Populated(config.apiKeySecret)
  /\ Populated(config.password) /\ ~Populated(config.username)

-----------------------------------------------------------------------------
(* Claims about request(), checked under Spec *)

Returned(r) == reqs[r].pc = "returned"
Outcome(r) == reqs[r].outcome[1]
IsFailure(r, kind) ==
  Returned(r) /\ ~Outcome(r).success /\ Outcome(r).error # <<>>
  /\ Outcome(r).error[1].type = kind

\* C3: no execution of request() ends by throwing, and one that has ended has
\* returned an outcome.
C3_NeverRaises ==
  \A r \in 1..MaxReq :
    /\ reqs[r].pc # "threw"
    /\ reqs[r].raised = <<>>
    /\ Returned(r) => Len(reqs[r].outcome) = 1

\* C3 witness: one request has returned after fetch rejected with a value that
\* is not an Error, another after a failure status with a body that is not JSON.
C3_Witness ==
  \E r, q \in 1..MaxReq :
    /\ Returned(r) /\ reqs[r].caught = <<NotAnError>>
    /\ Returned(q) /\ reqs[q].response # <<>> /\ ~reqs[q].response[1].ok
    /\ reqs[q].text = <<"<html>502 Bad Gateway</html>">>

\* C4: a returned outcome has exactly one variant: success with data and no
\* error, or failure with an error that has a kind and a reason, and no data.
C4_OneVariant ==
  \A r \in 1..MaxReq :
    Returned(r) =>
      IF Outcome(r).success
      THEN Len(Outcome(r).data) = 1 /\ Outcome(r).error = <<>>
      ELSE /\ Len(Outcome(r).error) = 1 /\ Outcome(r).data = <<>>
           /\ Outcome(r).error[1].type \notin {Undef, ""}
           /\ Len(Outcome(r).error[1].reason) >= 1
           /\ \A i \in 1..Len(Outcome(r).error[1].reason) :
                Outcome(r).error[1].reason[i] # Undef

\* C4 witness: a failure status whose body {} has no error descriptor and whose
\* status line has no reason text has been turned into an outcome.
C4_Witness ==
  \E r \in 1..MaxReq :
    /\ Returned(r) /\ reqs[r].text = <<"{}">>
    /\ reqs[r].response = <<Response(503, "")>>
    /\ ~Outcome(r).success

\* The "error" property the claims read from a body text: that of the decoded
\* object, none when the text does not decode to an object.
Descriptor(text) ==
  IF text # "" /\ ~JSONParse(text).threw /\ JSONParse(text).val[1].k = "object"
  THEN JSONParse(text).val[1].error
  ELSE ErrAbsent

\* A request that has returned after a response with a failure status whose
\* body text was read.
FailureStatusRead(r) ==
  /\ Returned(r) /\ reqs[r].response # <<>> /\ ~reqs[r].response[1].ok
  /\ reqs[r].text # <<>>

\* C5: after a failure status the outcome is a Failure whose kind is the body's
\* error.type, or request_error without one, and whose reason is the body's
\* error.reason, or the status text without one.
C5_HttpFailureKind ==
  \A r \in 1..MaxReq :
    FailureStatusRead(r) =>
      LET desc == Descriptor(reqs[r].text[1])
          resp == reqs[r].response[1]
      IN /\ ~Outcome(r).success /\ Len(Outcome(r).error) = 1
         /\ Outcome(r).error[1].type =
              (IF desc.k = "object" /\ desc.type # Undef THEN desc.type ELSE "request_error")
         /\ desc.k = "object" /\ desc.reason # Undef =>
              Outcome(r).error[1].reason = <<desc.reason>>
         /\ ~(desc.k = "object" /\ desc.reason # Undef) /\ resp.statusText # "" =>
              Outcome(r).error[1].reason = <<resp.statusText>>

\* C6: after a failure status, whatever the body text, the outcome is a Failure
\* that carries the response's status code.
C6_StatusAttached ==
  \A r \in 1..MaxReq :
    FailureStatusRead(r) =>
      /\ ~Outcome(r).success /\ Len(Outcome(r).error) = 1
      /\ Outcome(r).error[1].status = <<reqs[r].response[1].status>>

\* A request that has returned after a response with a success status.
SuccessStatus(r) ==
  Returned(r) /\ reqs[r].response # <<>> /\ reqs[r].response[1].ok

\* C7 as stated: after a success status the outcome is a Success whose data is
\* the decoded body, or { raw: text } when the text does not decode.
C7_AsStated ==
  \A r \in 1..MaxReq :
    SuccessStatus(r) =>
      /\ reqs[r].text # <<>>
      /\ Outcome(r) = Success(IF JSONParse(reqs[r].text[1]).threw
                              THEN RawWrapper(reqs[r].text[1])
                              ELSE JSONParse(reqs[r].text[1]).val[1])

\* C7 amended: after a success status whose body text was read the outcome is a
\* Success whose data is {} for the empty text, the decoded body for a text that
\* decodes, and { raw: text } for a non-empty text that does not.
C7_SuccessData ==
  \A r \in 1..MaxReq :
    SuccessStatus(r) /\ reqs[r].text # <<>> =>
      LET text == reqs[r].text[1] IN
      /\ Outcome(r).success /\ Outcome(r).error = <<>> /\ reqs[r].caught = <<>>
      /\ text = "" => Outcome(r).data = <<EmptyObject>>
      /\ text # "" /\ JSONParse(text).threw => Outcome(r).data = <<RawWrapper(text)>>
      /\ text # "" /\ ~JSONParse(text).threw => Outcome(r).data = JSONParse(text).val
      /\ text = "null" => Outcome(r).data[1].k = "null"

\* C7 witness: one request has returned {} for an empty body, another the
\* wrapper for a body that is not JSON.
C7_Witness ==
  \E r, q \in 1..MaxReq :
    /\ SuccessStatus(r) /\ reqs[r].text = <<"">>
    /\ Outcome(r) = Success(EmptyObject)
    /\ SuccessStatus(q) /\ reqs[q].text = <<"<html>502 Bad Gateway</html>">>
    /\ Outcome(q).data[1].raw = "<html>502 Bad Gateway</html>"

\* C8: a returned outcome is a connection_error exactly when fetch was called,
\* no response was obtained and the countdown did not elapse; its reason is the
\* fault's message and it has no status.
C8_ConnectionError ==
  \A r \in 1..MaxReq :
    Returned(r) =>
      /\ IsFailure(r, "connection_error") <=>
           (reqs[r].sent # <<>> /\ reqs[r].response = <<>> /\ reqs[r].timer # "fired")
      /\ IsFailure(r, "connection_error") =>
           /\ reqs[r].caught # <<>>
           /\ Outcome(r).error[1].reason = <<reqs[r].caught[1].message>>
           /\ Outcome(r).error[1].status = <<>>

\* C9: the countdown is scheduled while fetch is pending; when it has elapsed,
\* the exchange was aborted before any response and the outcome is the timeout
\* Failure, whose reason names the configured timeout and which has no status.
C9_Timeout ==
  \A r \in 1..MaxReq :
    /\ reqs[r].pc = "fetching" => reqs[r].timer = "armed"
    /\ reqs[r].timer = "fired" =>
         /\ reqs[r].aborted /\ reqs[r].sent # <<>> /\ reqs[r].response = <<>>
         /\ Returned(r)
         /\ Outcome(r) = Failure("timeout",
                                 <<"Request timed out after ", NumberToString(config.timeout), "ms">>,
                                 <<>>)
         /\ config.timeout = Num(100) =>
              Outcome(r).error[1].reason = <<"Request timed out after ", "100", "ms">>

\* C9 witness: the countdown of a client configured with 100 ms has elapsed.
C9_Witness ==
  \E r \in 1..MaxReq :
    /\ reqs[r].timer = "fired" /\ Returned(r) /\ config.timeout = Num(100)
    /\ IsFailure(r, "timeout")

\* C10: an execution that has ended has called clearTimeout and leaves no
\* countdown scheduled; with no execution in flight no countdown is scheduled.
C10_CountdownCancelled ==
  /\ \A r \in 1..MaxReq :
       reqs[r].pc \in {"returned", "threw"} =>
         reqs[r].timer \in {"cleared", "fired"} /\ reqs[r].clears >= 1
  /\ (\A r \in 1..MaxReq : reqs[r].pc \notin {"fetching", "reading"}) =>
       \A r \in 1..MaxReq : reqs[r].timer # "armed"

\* C10 witness: every request has ended, one with a Success, one through the
\* catch block after a fault of the transport.
C10_Witness ==
  \E r, q \in 1..MaxReq :
    /\ \A p \in 1..MaxReq : Returned(p)
    /\ Outcome(r).success /\ reqs[r].timer = "cleared"
    /\ reqs[q].caught = <<Fault("TypeError", "fetch failed")>>
    /\ reqs[q].timer = "cleared"

-----------------------------------------------------------------------------
(* The public methods of the client, two calls in flight *)

\* Clients authenticated by a pre-encoded key and by a username and password.
ApiConfigs ==
  { Config(EsUrl, <<"k">>, Undefined, Undefined, Undefined, Undefined, 30000),
    Config(EsUrl, Undefined, Undefined, Undefined, <<"u">>, <<"p","w">>, 30000) }

ApiPaths == { <<"/","i">> }

ApiBodies == { NoBody, ObjectBody }

ApiStep(r) ==
  \/ \E path \in ApiPaths : GetCall(r, path, NoQuery)
  \/ \E path \in ApiPaths, body \in ApiBodies : PostCall(r, path, body, NoQuery)
  \/ \E path \in ApiPaths, body \in ApiBodies : PutCall(r, path, body, NoQuery)
  \/ \E path \in ApiPaths, body \in ApiBodies : DeleteCall(r, path, body, NoQuery)
  \/ \E path \in ApiPaths : RequestCall(r, "HEAD", path, NoBody, NoQuery)
  \/ PingCall(r)
  \/ InfoCall(r)
  \/ NetStep(r)

InitApi == InitWith(ApiConfigs)

NextApi == Construct \/ \E r \in 1..MaxReq : ApiStep(r)

SpecApi == InitApi /\ [][NextApi]_vars

\* C11: a ping() issues one GET of the base endpoint followed by '/', never ends
\* by throwing, and returns true when the outcome of that read is a Success and
\* false when it is a Failure of any kind.
C11_Ping ==
  \A r \in 1..MaxReq :
    reqs[r].api = "ping" =>
      /\ reqs[r].pc # "threw" /\ reqs[r].raised = <<>>
      /\ Len(reqs[r].sent) = 1
      /\ reqs[r].sent[1].method = "GET"
      /\ reqs[r].sent[1].url = client.baseUrl \o <<"/">>
      /\ reqs[r].sent[1].body = <<>>
      /\ Returned(r) <=> reqs[r].pong # "none"
      /\ Returned(r) =>
           /\ Outcome(r).success => reqs[r].pong = "true"
           /\ ~Outcome(r).success => reqs[r].pong = "false"
           /\ \A kind \in {"timeout", "connection_error", "unknown_error", "request_error"} :
                IsFailure(r, kind) => reqs[r].pong = "false"

\* C11 witness: one ping() has returned true after a 200 response, another has
\* returned false after its countdown elapsed.
C11_Witness ==
  \E r, q \in 1..MaxReq :
    /\ reqs[r].api = "ping" /\ Returned(r) /\ Outcome(r).success /\ reqs[r].pong = "true"
    /\ reqs[q].api = "ping" /\ IsFailure(q, "timeout") /\ reqs[q].pong = "false"

-----------------------------------------------------------------------------
(* The outbound exchange of one call: method, URL and body *)

\* Endpoints without a trailing slash, with one and with two.
WireConfigs ==
  { Config(EsUrl \o tail, <<"k">>, Undefined, Undefined, Undefined, Undefined, 30000) :
      tail \in { <<>>, <<"/">>, <<"/","/">> } }

Methods == { "GET", "HEAD", "POST", "PUT", "DELETE" }

WirePaths == { <<"/">>, <<"/","i">> }

\* No body, the falsy values, and truthy values of every type.
WireBodies ==
  { NoBody, NullBody, BoolBody(FALSE), BoolBody(TRUE), NumBody(0), NumBody(1),
    StrBody(""), StrBody("a"), ObjectBody, CircularBody }

\* No map, the empty map, the map of the client's test, and a map with a number,
\* a boolean and a string of reserved characters.
WireQueries ==
  { NoQuery,
    Query(<<>>),
    Query(<< <<<<"f","o","r","m","a","t">>, StrVal(<<"j","s","o","n">>)>>,
             <<<<"h">>, StrVal(<<"i","n","d","e","x",",","h","e","a","l","t","h">>)>> >>),
    Query(<< <<<<"s","i","z","e">>, NumVal(10)>>,
             <<<<"v">>, BoolVal(TRUE)>>,
             <<<<"q">>, StrVal(<<"a","&","b","=","c"," ","d","?">>)>> >>) }

WireStep(r) ==
  \/ \E method \in Methods, path \in WirePaths, body \in WireBodies, query \in WireQueries :
       RequestCall(r, method, path, body, query)
  \/ \E path \in WirePaths, query \in WireQueries : GetCall(r, path, query)
  \/ NetStep(r)

InitWire == InitWith(WireConfigs)

NextWire == Construct \/ WireStep(1)

SpecWire == InitWire /\ [][NextWire]_vars

\* The value a JSON text of a request body decodes to.
BodyOfText(text) ==
  CASE text = "null" -> NullBody
    [] text = "false" -> BoolBody(FALSE)
    [] text = "true" -> BoolBody(TRUE)
    [] text = "0" -> NumBody(0)
    [] text = "1" -> NumBody(1)
    [] text = "\"\"" -> StrBody("")
    [] text = "\"a\"" -> StrBody("a")
    [] text = "{\"query\":{\"match_all\":{}}}" -> ObjectBody

\* A call whose fetch options were built.
Sent(r) == reqs[r].sent # <<>>

\* C12: a POST, PUT or DELETE exchange has no body when none was supplied, and
\* when one was supplied, falsy values and strings included, it has a JSON text
\* that decodes to the supplied body.
C12_BodyRoundTrip ==
  \A r \in 1..MaxReq :
    Sent(r) /\ reqs[r].method \in {"POST", "PUT", "DELETE"} =>
      /\ reqs[r].body = NoBody => reqs[r].sent[1].body = <<>>
      /\ reqs[r].body # NoBody =>
           /\ Len(reqs[r].sent[1].body) = 1
           /\ BodyOfText(reqs[r].sent[1].body[1]) = reqs[r].body

\* C13: a GET or HEAD exchange has no body whatever body request() was given,
\* and get() gives request() none.
C13_NoBodyOnRead ==
  \A r \in 1..MaxReq :
    /\ Sent(r) /\ reqs[r].method \in {"GET", "HEAD"} => reqs[r].sent[1].body = <<>>
    /\ reqs[r].api = "get" =>
         /\ reqs[r].method = "GET" /\ reqs[r].body = NoBody
         /\ Sent(r) /\ reqs[r].sent[1].body = <<>>

\* C13 witness: a GET and a HEAD that were given an object as body are in
\* flight or over, as is a get().
C13_Witness ==
  \E r \in 1..MaxReq :
    /\ Sent(r) /\ reqs[r].api = "request" /\ reqs[r].method = "HEAD"
    /\ reqs[r].body = ObjectBody /\ reqs[r].sent[1].body = <<>>

\* The pieces of s between the occurrences of the character c.
RECURSIVE SplitOn(_, _)
SplitOn(s, c) ==
  IF \A i \in 1..Len(s) : s[i] # c THEN <<s>>
  ELSE LET i == CHOOSE j \in 1..Len(s) : s[j] = c /\ \A k \in 1..(j - 1) : s[k] # c
       IN <<SubSeq(s, 1, i - 1)>> \o SplitOn(SubSeq(s, i + 1, Len(s)), c)

HexValue(d) == CHOOSE n \in 0..15 : HexDigits[n + 1] = d

\* The character of a byte that is percent-encoded.
CharOfCode(n) == CHOOSE c \in {" ", "&", ",", "/", ":", "=", "?"} : CharCode(c) = n

\* The text a form-encoded name or value stands for.
RECURSIVE FormDecode(_)
FormDecode(s) ==
  IF Len(s) = 0 THEN <<>>
  ELSE IF s[1] = "+" THEN <<" ">> \o FormDecode(Tail(s))
  ELSE IF s[1] = "%"
  THEN <<CharOfCode(16 * HexValue(s[2]) + HexValue(s[3]))>> \o FormDecode(SubSeq(s, 4, Len(s)))
  ELSE <<s[1]>> \o FormDecode(Tail(s))

\* The text a query value is written as.
Stringified(v) ==
  IF v = NumVal(10) THEN <<"1","0">>
  ELSE IF v = BoolVal(TRUE) THEN <<"t","r","u","e">>
  ELSE v.s

\* The URL of the exchange of call r, and what follows base endpoint + path.
UrlOf(r) == reqs[r].sent[1].url
UrlRest(r) ==
  SubSeq(UrlOf(r), Len(client.baseUrl) + Len(reqs[r].path) + 1, Len(UrlOf(r)))

\* C14: the URL of an exchange starts with base endpoint + path; nothing follows
\* when the query map is absent or empty; otherwise '?' follows and then one
\* name=value piece per entry of the map, in the map's order, separated by '&',
\* each standing for the entry's key and its stringified value; the map of the
\* client's test gives format=json&h=index%2Chealth.
C14_QueryString ==
  \A r \in 1..MaxReq :
    Sent(r) =>
      LET entries == reqs[r].query.entries
          pieces == SplitOn(Tail(UrlRest(r)), "&")
      IN /\ SubSeq(UrlOf(r), 1, Len(client.baseUrl) + Len(reqs[r].path))
              = client.baseUrl \o reqs[r].path
         /\ ~reqs[r].query.given \/ Len(entries) = 0 =>
              /\ UrlRest(r) = <<>>
              /\ \A i \in 1..Len(UrlOf(r)) : UrlOf(r)[i] # "?"
         /\ reqs[r].query.given /\ Len(entries) > 0 =>
              /\ Head(UrlRest(r)) = "?"
              /\ Len(pieces) = Len(entries)
              /\ \A i \in 1..Len(entries) :
                   /\ Len(SplitOn(pieces[i], "=")) = 2
                   /\ FormDecode(SplitOn(pieces[i], "=")[1]) = entries[i][1]
                   /\ FormDecode(SplitOn(pieces[i], "=")[2]) = Stringified(entries[i][2])
         /\ reqs[r].query.given /\ Len(entries) = 2 =>
              Tail(UrlRest(r)) = <<"f","o","r","m","a","t","=","j","s","o","n","&",
                                   "h","=","i","n","d","e","x","%","2","C",
                                   "h","e","a","l","t","h">>

\* C14 witness: a call with a map of a number, a boolean and a string of
\* reserved characters has been sent, with a query string of three pieces.
C14_Witness ==
  \E r \in 1..MaxReq :
    /\ Sent(r) /\ Len(reqs[r].query.entries) = 3
    /\ Len(SplitOn(Tail(UrlRest(r)), "&")) = 3
    /\ FormDecode(SplitOn(SplitOn(Tail(UrlRest(r)), "&")[3], "=")[2])
         = <<"a","&","b","=","c"," ","d","?">>

\* Whether s ends with the characters of t.
EndsWith(s, t) == Len(s) >= Len(t) /\ SubSeq(s, Len(s) - Len(t) + 1, Len(s)) = t

\* C15: for an endpoint that ends in a slash, the read of '/' is sent to a URL
\* that ends in one slash and not in two.
C15_SingleSlash ==
  \A r \in 1..MaxReq :
    /\ Sent(r) /\ reqs[r].path = <<"/">> /\ reqs[r].query = NoQuery
    /\ EndsWith(config.elasticUrl, <<"/">>)
    => /\ EndsWith(UrlOf(r), <<"/">>)
       /\ ~EndsWith(UrlOf(r), <<"/","/">>)

-----------------------------------------------------------------------------
(* Claims about calls in flight together, checked under SpecApi *)

\* C16: a step in which one call moves (its countdown elapses, its fetch
\* resolves or rejects, its body is read, it returns) leaves every other call
\* as it was, and a call is aborted only in the step in which its own armed
\* countdown elapses.
C16_Independent ==
  [][ \A r \in 1..MaxReq :
        /\ reqs'[r].aborted /\ ~reqs[r].aborted =>
             reqs[r].timer = "armed" /\ reqs'[r].timer = "fired"
        /\ reqs'[r] # reqs[r] =>
             \A q \in 1..MaxReq \ {r} : reqs'[q] = reqs[q] ]_vars

\* C16 witness: the countdown of the second call has elapsed and the call has
\* returned a timeout while the first call, made before it, still awaits fetch
\* with its countdown armed.
C16_Witness ==
  /\ IsFailure(2, "timeout") /\ reqs[2].aborted /\ reqs[2].timer = "fired"
  /\ reqs[1].pc = "fetching" /\ reqs[1].timer = "armed" /\ ~reqs[1].aborted

\* C17: once constructed, the client keeps the base endpoint, the timeout and
\* the two header values the constructor derived from the configuration, and
\* every exchange of every public method is sent with those headers.
C17_ClientFrame ==
  constructed = "ok" =>
    /\ client.baseUrl = EsUrl
    /\ client.timeout = Num(30000)
    /\ client.headers.ContentType = "application/json"
    /\ client.headers.Authorization =
         (IF HasKey(config) THEN ApiKeyPrefix \o <<"k">>
          ELSE BasicPrefix \o <<"d","T","p","w","d","w","=","=">>)
    /\ \A r \in 1..MaxReq :
         Sent(r) => reqs[r].sent[1].headers = client.headers

\* C17 witness: a post() has returned a Failure and a ping() a Success on a
\* client authenticated by username and password.
C17_Witness ==
  \E r, q \in 1..MaxReq :
    /\ reqs[r].api = "post" /\ Returned(r) /\ ~Outcome(r).success
    /\ reqs[q].api = "ping" /\ Returned(q) /\ Outcome(q).success
    /\ client.headers.Authorization = BasicPrefix \o <<"d","T","p","w","d","w","=","=">>
    /\ reqs[r].sent[1].headers = reqs[q].sent[1].headers

-----------------------------------------------------------------------------
(* Claims about the dispatch of tool calls, checked under SpecTool *)

ToolConfigs ==
  { Config(EsUrl, <<"k">>, Undefined, Undefined, Undefined, Undefined, 30000) }

\* Calls of the three tools with arguments their schemas accept and reject, and
\* calls of names that are not registered.
Invocations ==
  { <<"search", Args(<<StrVal(<<"i">>)>>, <<>>, <<>>)>>,
    <<"search", NoArgs>>,
    <<"search", Args(<<StrVal(<<"i">>)>>, <<>>, <<NumVal(20000)>>)>>,
    <<"delete_index", Args(<<StrVal(<<"i">>)>>, <<BoolVal(TRUE)>>, <<>>)>>,
    <<"delete_index", Args(<<StrVal(<<"i">>)>>, <<BoolVal(FALSE)>>, <<>>)>>,
    <<"cluster_info", NoArgs>>,
    <<"cluster_info", Args(<<NumVal(7)>>, <<>>, <<>>)>>,
    <<"nope", NoArgs>>,
    <<"Search", Args(<<StrVal(<<"i">>)>>, <<>>, <<>>)>> }

\* Bodies of the calls made of the client directly.
DirectBodies == { ObjectBody, CircularBody }

ToolStep ==
  \/ \E i \in 1..MaxInv, inv \in Invocations : CallTool(i, inv[1], inv[2])
  \/ \E i \in 1..MaxInv : HandlerResume(i)
  \/ \E r \in 1..MaxReq, body \in DirectBodies : PostCall(r, <<"/","i">>, body, NoQuery)
  \/ \E r \in 1..MaxReq : NetStep(r)

InitTool == InitWith(ToolConfigs)

NextTool == Construct \/ ToolStep

SpecTool == InitTool /\ [][NextTool]_vars

\* An invocation whose handler was invoked with validated parameters.
Handled(i) == invs[i].handled /\ invs[i].validated

\* A call of request() whose body JSON.stringify rejects.
Unserialisable(r) ==
  reqs[r].body = CircularBody /\ reqs[r].method \in {"POST", "PUT", "DELETE"}

\* What C18 says of handlers: one call of the client per handled invocation,
\* on a request of its own.
OneCallPerHandler ==
  \A i \in 1..MaxInv :
    Handled(i) =>
      /\ invs[i].calls = 1
      /\ invs[i].req \in 1..MaxReq /\ reqs[invs[i].req].pc # "idle"
      /\ \A j \in 1..MaxInv \ {i} : invs[j].req # invs[i].req

\* C18 as stated: every handled invocation has made one call of the client, and
\* every execution of request() has issued exactly one exchange.
C18_AsStated ==
  /\ OneCallPerHandler
  /\ \A r \in 1..MaxReq : reqs[r].pc # "idle" => Len(reqs[r].sent) = 1

\* C18 amended: every handled invocation has made one call of the client; an
\* execution of request() has issued one exchange, or none when its body cannot
\* be serialised, and never two, whatever its outcome; the request of a handled
\* invocation has issued exactly one.
C18_NoRetry ==
  /\ OneCallPerHandler
  /\ \A r \in 1..MaxReq :
       reqs[r].pc # "idle" =>
         /\ Len(reqs[r].sent) <= 1
         /\ Len(reqs[r].sent) = 0 <=> Unserialisable(r)
  /\ \A i \in 1..MaxInv : Handled(i) => Len(reqs[invs[i].req].sent) = 1

\* C18 witness: a search has ended with an error result after its one exchange
\* timed out, and a direct call with a body that cannot be serialised has
\* returned a Failure without an exchange.
C18_Witness ==
  \E i \in 1..MaxInv, r \in 1..MaxReq :
    /\ Handled(i) /\ invs[i].name = "search" /\ invs[i].pc = "done"
    /\ invs[i].result[1].isError = <<TRUE>>
    /\ IsFailure(invs[i].req, "timeout") /\ Len(reqs[invs[i].req].sent) = 1
    /\ Unserialisable(r) /\ Returned(r) /\ ~Outcome(r).success /\ reqs[r].sent = <<>>

\* C19: a call of a name other than search, delete_index and cluster_info ends
\* at once with the text 'Unknown tool: <name>' and the error flag, without
\* validation, handler or request, and nothing is raised.
C19_UnknownTool ==
  \A i \in 1..MaxInv :
    invs[i].pc # "idle" /\ invs[i].name \notin {"search", "delete_index", "cluster_info"} =>
      /\ invs[i].pc = "done" /\ invs[i].raised = <<>>
      /\ invs[i].result = <<[text |-> <<"Unknown tool: ", invs[i].name>>, isError |-> <<TRUE>>]>>
      /\ ~invs[i].validated /\ ~invs[i].handled /\ invs[i].caught = <<>>
      /\ invs[i].calls = 0 /\ invs[i].req = 0

\* C19 witness: the name 'Search', which differs from a registered name by its
\* capital letter, has been called with arguments that search accepts, while no
\* request has been made.
C19_Witness ==
  \E i \in 1..MaxInv :
    /\ invs[i].pc = "done" /\ invs[i].name = "Search" /\ invs[i].args.given
    /\ invs[i].result[1].text = <<"Unknown tool: ", "Search">>
    /\ Exchanges = {}

\* C20: a call of a registered tool never ends by raising; a fault thrown by the
\* validation or by the handler gives the text 'Tool execution failed: <message>'
\* with the error flag; arguments the schema rejects give such a result without
\* the handler being invoked and without a request.
C20_DispatchCatches ==
  \A i \in 1..MaxInv :
    invs[i].pc # "idle" /\ invs[i].name \in {"search", "delete_index", "cluster_info"} =>
      /\ invs[i].pc # "raised" /\ invs[i].raised = <<>>
      /\ invs[i].caught # <<>> =>
           /\ invs[i].pc = "done"
           /\ invs[i].result =
                <<[text |-> <<"Tool execution failed: ", invs[i].caught[1].message>>,
                   isError |-> <<TRUE>>]>>
      /\ ~invs[i].validated =>
           /\ invs[i].caught # <<>> /\ invs[i].caught[1].name = "ZodError"
           /\ ~invs[i].handled /\ invs[i].calls = 0 /\ invs[i].req = 0
      /\ invs[i].name = "search" /\ invs[i].args.index = <<>> => ~invs[i].validated
      /\ invs[i].name = "search" /\ invs[i].args.size = <<NumVal(20000)>> => ~invs[i].validated
      /\ invs[i].name = "delete_index" /\ invs[i].args.confirm # <<BoolVal(TRUE)>> =>
           ~invs[i].validated

\* C20 witness: a delete_index with confirm false has been rejected by its
\* schema, and a search whose 200 response had the body {} has thrown in its
\* handler; both have ended with 'Tool execution failed'.
C20_Witness ==
  \E i, j \in 1..MaxInv :
    /\ invs[i].name = "delete_index" /\ invs[i].pc = "done" /\ ~invs[i].validated
    /\ invs[i].result[1].text[1] = "Tool execution failed: "
    /\ invs[j].name = "search" /\ invs[j].pc = "done" /\ invs[j].handled
    /\ invs[j].caught # <<>> /\ invs[j].caught[1].name = "TypeError"
    /\ reqs[invs[j].req].text = <<"{}">>
    /\ invs[j].result[1].text[1] = "Tool execution failed: "

-----------------------------------------------------------------------------
(* Claims about the tool handlers, checked under SpecHandler: one invocation
   and its one request, with the arguments and the answers varied *)

\* The remote exchange of call r, answered with the texts of ToolTexts.
ToolNetStep(r) ==
  \/ \E response \in Responses : FetchResolve(r, response)
  \/ \E fault \in FetchFaults : FetchReject(r, fault)
  \/ TimerFires(r)
  \/ \E text \in ToolTexts : TextResolve(r, text)
  \/ \E fault \in ReadFaults : TextReject(r, fault)

\* One search of a multi-search: its index, and optionally its query and size.
Search(index, query, size) ==
  [index |-> <<StrVal(index)>>, query |-> query, size |-> size]

\* String values a z.string() accepts: a plain name, and names with the
\* characters '/', '.', '?' and '#'.
Names ==
  { <<"i">>, <<"a","/","b">>, <<".",".","/","r","o","l","e","/","x">>,
    <<"i","?","v","=","1">>, <<"i","#","x">> }

\* Calls of the tools through the dispatch.
HandlerInvocations ==
  { <<"search", Args(<<StrVal(<<"i">>)>>, <<>>, <<>>)>>,
    <<"count", Args(<<StrVal(<<"i">>)>>, <<>>, <<>>)>>,
    <<"cluster_info", NoArgs>>,
    <<"msearch", [NoArgs EXCEPT !.given = TRUE, !.searches = << <<>> >>]>>,
    <<"msearch", [NoArgs EXCEPT !.given = TRUE,
                    !.searches = << <<Search(<<"i">>, <<>>, <<>>)>> >>]>>,
    <<"msearch", [NoArgs EXCEPT !.given = TRUE,
                    !.searches = << <<Search(<<"a">>, <<>>, <<5>>),
                                      Search(<<"b">>, <<"{\"term\":{\"u\":\"x\"}}">>, <<0>>)>> >>]>>,
    <<"create_api_key", [NoArgs EXCEPT !.given = TRUE, !.name = <<StrVal(<<"n">>)>>]>> }
  \cup { <<"delete_index", Args(<<StrVal(n)>>, confirm, <<>>)>> :
           n \in Names, confirm \in {<<>>, <<BoolVal(FALSE)>>, <<BoolVal(TRUE)>>} }
  \cup { <<"delete_user", [NoArgs EXCEPT !.given = TRUE, !.username = <<StrVal(n)>>]>> :
           n \in Names }
  \cup { <<"get_document", [Args(<<StrVal(<<"i">>)>>, <<>>, <<>>) EXCEPT !.id = <<StrVal(n)>>]>> :
           n \in Names }

\* Calls of the delete_index handler itself, with and without the confirmation.
HandlerCalls ==
  { <<"delete_index", [NoParams EXCEPT !.index = <<"i">>, !.confirm = confirm]>> :
      confirm \in BOOLEAN }

HandlerStep ==
  \/ \E inv \in HandlerInvocations : CallTool(1, inv[1], inv[2])
  \/ \E c \in HandlerCalls : InvokeHandler(1, c[1], c[2])
  \/ HandlerResume(1)
  \/ ToolNetStep(1)

InitHandler == InitWith(ToolConfigs)

NextHandler == Construct \/ HandlerStep

SpecHandler == InitHandler /\ [][NextHandler]_vars

\* The label each handler puts before the reason of a Failure.
Label(name) ==
  CASE name = "search" -> "Search failed: "
    [] name = "count" -> "Count failed: "
    [] name = "msearch" -> "Multi-search failed: "
    [] name = "get_document" -> "Document not found or error: "
    [] name = "delete_index" -> "Failed to delete index: "
    [] name = "cluster_info" -> "Failed to get cluster info: "
    [] name = "delete_user" -> "Failed to delete user: "
    [] name = "create_api_key" -> "Failed to create API key: "

\* An invocation whose handler ran with validated parameters and whose call of
\* the client has returned to it.
Resumed(i) ==
  /\ Handled(i) /\ invs[i].pc \in {"done", "raised"}
  /\ invs[i].req # 0 /\ Returned(invs[i].req)

\* The Failure half of C21: after a Failure the result is the label followed
\* by the Failure's reason, with the error flag.
FailureLabelled(i) ==
  ~Outcome(invs[i].req).success =>
    invs[i].result = <<[text |-> <<Label(invs[i].name)>> \o Outcome(invs[i].req).error[1].reason,
                        isError |-> <<TRUE>>]>>

\* C21: after a Failure the result of a handler is its label followed by the
\* Failure's reason, with the error flag set; after a Success it is a text
\* without the error flag.
C21_ResultMapping ==
  \A i \in 1..MaxInv :
    Resumed(i) =>
      /\ FailureLabelled(i)
      /\ Outcome(invs[i].req).success =>
           /\ invs[i].pc = "done" /\ Len(invs[i].result) = 1
           /\ invs[i].result[1].isError = <<>>
           /\ Len(invs[i].result[1].text) >= 1

\* C22: a handler that ran with validated parameters has not thrown, whatever
\* the outcome of its call of the client and the shape of its data.
C22_HandlersNeverRaise ==
  \A i \in 1..MaxInv :
    Handled(i) => invs[i].caught = <<>> /\ invs[i].pc # "raised" /\ invs[i].raised = <<>>

\* The newline-delimited text of one search of the index i without a query or a
\* size: the header line and the query line, each ended by a newline.
OneSearchText == "{\"index\":\"i\"}\n{\"query\":{\"match_all\":{}},\"size\":10}\n"

\* The number of newlines in a string.
RECURSIVE Newlines(_)
Newlines(s) ==
  IF Len(s) = 0 THEN 0
  ELSE (IF SubSeq(s, 1, 1) = "\n" THEN 1 ELSE 0) + Newlines(SubSeq(s, 2, Len(s)))

\* C23: the one call of msearch is given one text of two newline-ended lines per
\* search, and the body of its exchange is that text.
C23_NdjsonOnWire ==
  \A i \in 1..MaxInv :
    Handled(i) /\ invs[i].name = "msearch" /\ invs[i].pc # "idle" =>
      LET r == invs[i].req IN
      /\ invs[i].calls = 1 /\ r # 0 /\ Len(reqs[r].sent) = 1
      /\ reqs[r].body.k = "string"
      /\ Len(invs[i].params[1].searches) >= 1 =>
           Newlines(reqs[r].body.s) = 2 * Len(invs[i].params[1].searches)
      /\ invs[i].params[1].searches = <<Search(<<"i">>, <<>>, <<>>)>> =>
           reqs[r].body.s = OneSearchText
      /\ reqs[r].sent[1].body = <<reqs[r].body.s>>

\* Whether a delete_index invocation was given confirm: true, in its arguments
\* or, for a call of the handler itself, in its parameters.
Confirmed(i) ==
  IF invs[i].direct THEN invs[i].params[1].confirm
  ELSE invs[i].args.confirm = <<BoolVal(TRUE)>>

\* C24: a delete_index invocation has a request, a DELETE, only when confirm is
\* true; without it there is no call of the client and no exchange, and the
\* result has the error flag: 'Deletion not confirmed...' from the handler, and
\* a validation failure from the dispatch, which does not invoke the handler.
C24_ConfirmRequired ==
  \A i \in 1..MaxInv :
    invs[i].name = "delete_index" /\ invs[i].pc # "idle" =>
      /\ invs[i].req # 0 => Confirmed(i) /\ reqs[invs[i].req].method = "DELETE"
      /\ ~Confirmed(i) =>
           /\ invs[i].calls = 0 /\ invs[i].req = 0 /\ Exchanges = {}
           /\ invs[i].pc = "done" /\ invs[i].result[1].isError = <<TRUE>>
           /\ invs[i].direct =>
                invs[i].result[1].text = <<"Deletion not confirmed. Set confirm: true to delete.">>
           /\ ~invs[i].direct =>
                /\ ~invs[i].validated /\ ~invs[i].handled
                /\ invs[i].result[1].text[1] = "Tool execution failed: "

\* C24 witness: the delete_index handler, called with confirm false, has
\* returned 'Deletion not confirmed' and no exchange was issued.
C24_Witness ==
  \E i \in 1..MaxInv :
    /\ invs[i].name = "delete_index" /\ invs[i].direct /\ invs[i].pc = "done"
    /\ ~invs[i].params[1].confirm /\ invs[i].handled
    /\ invs[i].result[1].text = <<"Deletion not confirmed. Set confirm: true to delete.">>
    /\ Exchanges = {}

-----------------------------------------------------------------------------
(* Secrets in results, checked under SpecSecret *)

\* Whether fetch accepts a header value: one without a line break inside.
HeaderSendable(value) == \A n \in 1..Len(value) : value[n] \notin {"\n", "\r"}

\* fetch refuses to send a header value with a line break: it rejects with a
\* TypeError whose message quotes the value.
FetchRefuses(r) ==
  /\ reqs[r].pc = "fetching"
  /\ ~HeaderSendable(reqs[r].sent[1].headers.Authorization)
  /\ reqs' = [ reqs EXCEPT ![r] =
                 End(reqs[r],
                     Throw(Fault("TypeError",
                                 "Headers.append: \""
                                   \o Text(reqs[r].sent[1].headers.Authorization)
                                   \o "\" is an invalid header value."))) ]
  /\ UNCHANGED <<env, tools, listed, config, constructed, client, thrown, invs>>

\* A pre-encoded key, and one whose value holds a line break.
SecretConfigs ==
  { Config(EsUrl, key, Undefined, Undefined, Undefined, Undefined, 30000) :
      key \in { <<"K","9">>, <<"K","9","\n","z">> } }

SecretInvocations ==
  { <<"create_api_key", [NoArgs EXCEPT !.given = TRUE, !.name = <<StrVal(<<"n">>)>>]>>,
    <<"cluster_info", NoArgs>> }

SecretStep ==
  \/ \E inv \in SecretInvocations : CallTool(1, inv[1], inv[2])
  \/ HandlerResume(1)
  \/ ToolNetStep(1)
  \/ FetchRefuses(1)

InitSecret == InitWith(SecretConfigs)

NextSecret == Construct \/ SecretStep

SpecSecret == InitSecret /\ [][NextSecret]_vars

\* Whether the string hay has the string needle inside it.
Contains(hay, needle) ==
  \E n \in 1..(Len(hay) - Len(needle) + 1) : SubSeq(hay, n, n + Len(needle) - 1) = needle

\* Whether one of the pieces of a text has the string needle inside it.
Mentions(pieces, needle) == \E n \in 1..Len(pieces) : Contains(pieces[n], needle)

\* The first half of C25: the text create_api_key returns does not have the
\* api_key of the remote answer in it.
RawKeyWithheld ==
  \A i \in 1..MaxInv :
    invs[i].name = "create_api_key" /\ invs[i].pc = "done" =>
      ~Mentions(invs[i].result[1].text, "s3cr3t")

\* C25: the text create_api_key returns does not have the api_key of the remote
\* answer in it, and no result and no reason of a Failure has the configured
\* key in it.
C25_NoSecretInPayload ==
  /\ RawKeyWithheld
  /\ \A i \in 1..MaxInv :
       invs[i].pc = "done" => ~Mentions(invs[i].result[1].text, Text(config.apiKeyEncoded))
  /\ \A r \in 1..MaxReq :
       Returned(r) /\ ~Outcome(r).success =>
         ~Mentions(Outcome(r).error[1].reason, Text(config.apiKeyEncoded))

-----------------------------------------------------------------------------
(* Tool discovery, checked under SpecList *)

FieldTypes == { ZString, ZNumber, ZBoolean, ZArray, ZObject }

\* A field as declared, made optional, or given a default.
FieldDefs ==
  FieldTypes \cup { Optional(f) : f \in FieldTypes } \cup { Default(f) : f \in FieldTypes }

\* Object schemas of one or two fields.
Shapes ==
  { << <<"a", f>> >> : f \in FieldDefs }
    \cup { << <<"a", f>>, <<"b", Describe(g)>> >> : f \in FieldDefs, g \in FieldDefs }

\* The registered tools, a tool of each shape, and a tool whose schema has no
\* shape.
Registries ==
  { RegisteredTools } \cup { [name \in {"t"} |-> ZodObject(shape)] : shape \in Shapes }
    \cup { [name \in {"t"} |-> Unshaped] }

InitList ==
  /\ env = NoEnv
  /\ config = Config(EsUrl, <<"k">>, Undefined, Undefined, Undefined, Undefined, 30000)
  /\ constructed = "pending"
  /\ client = NoClient
  /\ thrown = <<>>
  /\ reqs = [r \in 1..MaxReq |-> IdleReq]
  /\ invs = [i \in 1..MaxInv |-> IdleInv]
  /\ tools \in Registries
  /\ listed = <<>>

NextList == Construct \/ ListTools

SpecList == InitList /\ [][NextList]_vars

\* The type a field declares: that of the schema an optional or a default wraps.
RECURSIVE DeclaredType(_)
DeclaredType(fieldDef) ==
  IF fieldDef.innerType # <<>> THEN DeclaredType(fieldDef.innerType[1])
  ELSE CASE fieldDef.typeName = "ZodString" -> "string"
         [] fieldDef.typeName = "ZodNumber" -> "number"
         [] fieldDef.typeName = "ZodBoolean" -> "boolean"
         [] fieldDef.typeName = "ZodArray" -> "array"
         [] fieldDef.typeName = "ZodObject" -> "object"
         [] OTHER -> "other"

\* Whether a field was made optional or given a default.
RECURSIVE Wrapped(_, _)
Wrapped(fieldDef, typeName) ==
  /\ fieldDef.innerType # <<>>
  /\ fieldDef.typeName = typeName \/ Wrapped(fieldDef.innerType[1], typeName)

Elements(seq) == { seq[i] : i \in 1..Len(seq) }

\* The descriptor lists a field as required exactly when the field is neither
\* optional nor has a default.
RequiredAsDeclared ==
  listed # <<>> =>
    \A name \in DOMAIN tools :
      \A i \in 1..Len(tools[name].shape) :
        LET field == tools[name].shape[i]
        IN field[1] \in Elements(listed[1][name].inputSchema.required)
             <=> ~Wrapped(field[2], "ZodOptional") /\ ~Wrapped(field[2], "ZodDefault")

\* C26: tool discovery returns an entry for each registered tool whose
\* descriptor gives each field of the declared schema the field's declared type
\* (number, boolean, array, object or string), optional or defaulted or not,
\* and lists a field as required exactly when it is neither optional nor has a
\* default.
C26_DescriptorTypes ==
  listed # <<>> =>
    /\ DOMAIN listed[1] = DOMAIN tools
    /\ \A name \in DOMAIN tools :
         /\ Len(listed[1][name].inputSchema.properties) = Len(tools[name].shape)
         /\ \A i \in 1..Len(tools[name].shape) :
              LET field == tools[name].shape[i]
                  property == listed[1][name].inputSchema.properties[i]
              IN /\ property.key = field[1]
                 /\ DeclaredType(field[2]) # "other" => property.type = DeclaredType(field[2])
    /\ RequiredAsDeclared

-----------------------------------------------------------------------------
(* The timeout kind, checked under Spec *)

\* C27: a Failure of kind 'timeout' is returned only by a request whose own
\* countdown elapsed and aborted the exchange; a fault the exchange raises while
\* the countdown has not elapsed is never reported as 'timeout'.
C27_TimeoutOnlyAfterCountdown ==
  \A r \in 1..MaxReq :
    IsFailure(r, "timeout") => reqs[r].timer = "fired" /\ reqs[r].aborted

-----------------------------------------------------------------------------
(* Termination of request(), checked under SpecLive *)

InitLive == InitWith(TestConfigs)

NextLive == Construct \/ Step(1)

\* One request() call. The event loop runs the countdown's callback once it is
\* due, so a countdown that stays scheduled fires; nothing obliges the remote
\* service to answer or to finish its answer.
SpecLive == InitLive /\ [][NextLive]_vars /\ WF_vars(TimerFires(1))

\* Whether call r has been made and has not ended.
Pending(r) == reqs[r].pc \in {"fetching", "reading"}

\* A call that awaits fetch does not await it forever.
FetchEnds == (reqs[1].pc = "fetching") ~> (reqs[1].pc # "fetching")

\* C28: every execution of request() eventually returns an outcome, also when
\* the remote service sends the status and the headers and never finishes the
\* body: a call that is pending does not stay pending forever.
C28_EventuallyReturns == Pending(1) ~> Returned(1)

-----------------------------------------------------------------------------
(* Parameters in the request path, checked under SpecHandler *)

\* The endpoint of the operation, up to the segment that names the resource.
Endpoint(name, params) ==
  CASE name = "delete_user" ->
         <<"/","_","s","e","c","u","r","i","t","y","/","u","s","e","r","/">>
    [] name = "delete_index" -> <<"/">>
    [] name = "get_document" -> <<"/">> \o params.index \o <<"/","_","d","o","c","/">>

\* One path segment: no separator of segments, of the query or of the
\* fragment, and not a reference to the same or the parent segment.
SingleSegment(segment) ==
  /\ \A n \in 1..Len(segment) : segment[n] \notin {"/", "?", "#"}
  /\ segment \notin { <<>>, <<".">>, <<".",".">> }

\* What follows the base endpoint and the operation's endpoint in the URL of
\* the exchange of invocation i.
Segment(i) ==
  LET prefix == client.baseUrl \o Endpoint(invs[i].name, invs[i].params[1])
  IN SubSeq(UrlOf(invs[i].req), Len(prefix) + 1, Len(UrlOf(invs[i].req)))

\* The same for the parameter values that have none of these characters.
PlainNamesStay ==
  \A i \in 1..MaxInv :
    /\ Handled(i) /\ invs[i].name = "delete_user" /\ invs[i].req # 0
    /\ Sent(invs[i].req) /\ SingleSegment(invs[i].params[1].username)
    => Segment(i) = invs[i].params[1].username

\* C29: a handler that puts a string parameter into the request path sends the
\* exchange to its operation's endpoint followed by the parameter as one path
\* segment, for every string the schema accepts, '/', '..', '?' and '#'
\* included: the value neither reaches another resource nor adds a query.
C29_SingleSegment ==
  \A i \in 1..MaxInv :
    /\ Handled(i) /\ invs[i].name \in {"delete_user", "delete_index", "get_document"}
    /\ invs[i].req # 0 /\ Sent(invs[i].req)
    => LET prefix == client.baseUrl \o Endpoint(invs[i].name, invs[i].params[1])
       IN /\ SubSeq(UrlOf(invs[i].req), 1, Len(prefix)) = prefix
          /\ SingleSegment(Segment(i))

-----------------------------------------------------------------------------
(* The timeout read from the environment, checked under SpecEnv *)

\* Values of ELASTIC_TIMEOUT: unset, empty, a duration, zero, a negative
\* number, and texts that are not integers.
Timeouts ==
  { Undefined, <<>>, <<"5","0","0","0">>, <<"0">>, <<"-","5">>, <<"a","b","c">>,
    <<"1",".","5">>, <<"1","0","a","b","c">>, <<" ","4","2">>, <<"1","e","3">>,
    <<"+","7">> }

Envs ==
  { [NoEnv EXCEPT !.ELASTIC_URL = url, !.ELASTIC_API_KEY_ENCODED = key,
                  !.ELASTIC_SKIP_SSL_VERIFY = skip, !.ELASTIC_TIMEOUT = timeout] :
      url \in {Undefined, EsUrl}, key \in {Undefined, <<"k">>},
      skip \in {Undefined, <<"t","r","u","e">>, <<"1">>}, timeout \in Timeouts }

\* The configuration before createClientFromEnv has built one.
NoConfig == EnvConfig(NoEnv)

InitEnv ==
  /\ env \in Envs
  /\ config = NoConfig
  /\ constructed = "pending"
  /\ client = NoClient
  /\ thrown = <<>>
  /\ reqs = [r \in 1..MaxReq |-> IdleReq]
  /\ invs = [i \in 1..MaxInv |-> IdleInv]
  /\ tools = RegisteredTools
  /\ listed = <<>>

NextEnv == CreateClientFromEnv \/ Step(1)

SpecEnv == InitEnv /\ [][NextEnv]_vars

\* The override is unset or empty, or a text of digits that names a positive
\* number: the timeout is 30000 or the number the override names.
PlainOverrides ==
  constructed = "ok" =>
    /\ ~Truthy(env.ELASTIC_TIMEOUT) => client.timeout = Num(30000)
    /\ env.ELASTIC_TIMEOUT = <<"5","0","0","0">> => client.timeout = Num(5000)

\* C30: the client built from the environment has a timeout that is a positive
\* integer number of milliseconds, 30000 when ELASTIC_TIMEOUT is unset or
\* empty; no value of the variable, non-numeric, zero or negative, gives a
\* client whose countdown is not a positive finite duration.
C30_PositiveTimeout ==
  constructed = "ok" =>
    /\ ~client.timeout.nan
    /\ client.timeout.n > 0
    /\ ~Truthy(env.ELASTIC_TIMEOUT) => client.timeout = Num(30000)

====
